---- MODULE Spec2Model ----
(***************************************************************************)
(* Symbolic differentiation calculator: expression trees (src/src/nodes.py)*)
(* with evaluation and differentiation, the simplifier                     *)
(* (src/src/simplifier.py), the tokenizer (src/src/tokenizer.py) and the   *)
(* recursive-descent parser (src/src/parser.py).                           *)
(*                                                                         *)
(* Numbers are Python floats in the program.  They are modelled as exact   *)
(* rationals [num, den] in lowest terms; a power with a non-integer        *)
(* exponent (other than on base 0 or 1) has no exact rational value, and a *)
(* power beyond MaxPow is not computed: both get status "inexact", and the *)
(* actions are not enabled on inputs whose computation leaves the exact    *)
(* range.                                                                  *)
(***************************************************************************)
EXTENDS Integers, Sequences, FiniteSets, TLC

VARIABLES
    text,     \* the string given to tokenize or parse_expression, as the
              \* sequence of its characters
    tokens,   \* Parser.tokens: the token list handed to Parser(...)
    tree,     \* the expression tree an operation is applied to
    call,     \* the operation applied last ("init" before any)
    arg,      \* its argument besides the tree (the variable of differentiate)
    out,      \* what the operation returned or raised
    heap,     \* the objects created so far: heap[id] is the object with
              \* identity id (a node, a token list or a dict)
    self,     \* the fields of the Parser, Tokenizer or Calculator instance
    history   \* what the instance did so far: the Parser's steps with the
              \* cursor after each, or the calls made with what they returned

vars == <<text, tokens, tree, call, arg, out, heap, self, history>>

----------------------------------------------------------------------------
(* Bounds of the explored inputs.                                          *)

MaxLit == 2      \* number literals of the input trees are 0 .. MaxLit
MaxShort == 4    \* every token list of at most MaxShort tokens is an input
MaxOperands == 4 \* operand (op operand)* chains have at most MaxOperands operands
MaxPow == 40000  \* a power is computed exactly up to this numerator and denominator
MaxText == 4     \* every string of at most MaxText characters is an input

----------------------------------------------------------------------------
(* Exact rational arithmetic standing for Python float arithmetic.         *)

Abs(i) == IF i < 0 THEN -i ELSE i

RECURSIVE GCD(_, _)
GCD(a, b) == IF b = 0 THEN a ELSE GCD(b, a % b)

\* n/d in lowest terms with a positive denominator (d # 0).
Rat(n, d) ==
    LET g == GCD(Abs(n), Abs(d))
        s == IF d < 0 THEN -1 ELSE 1
    IN  [num |-> (s * n) \div g, den |-> (s * d) \div g]

Whole(i) == [num |-> i, den |-> 1]

IsZero(a) == a.num = 0
IsOne(a) == a.num = 1 /\ a.den = 1
IsInt(a) == a.den = 1

RAdd(a, b) == Rat(a.num * b.den + b.num * a.den, a.den * b.den)
RSub(a, b) == Rat(a.num * b.den - b.num * a.den, a.den * b.den)
RMul(a, b) == Rat(a.num * b.num, a.den * b.den)
\* b is not zero
RDiv(a, b) == Rat(a.num * b.den, a.den * b.num)

\* i^k for k >= 0, computed until it leaves -MaxPow .. MaxPow.
RECURSIVE IPowFrom(_, _, _)
IPowFrom(i, k, acc) ==
    IF k = 0 \/ Abs(acc) > MaxPow THEN acc ELSE IPowFrom(i, k - 1, acc * i)

IPow(i, k) ==
    IF i = 0 THEN (IF k = 0 THEN 1 ELSE 0)
    ELSE IF i = 1 THEN 1
    ELSE IF i = -1 THEN (IF k % 2 = 0 THEN 1 ELSE -1)
    ELSE IPowFrom(i, k, 1)

Val(v) == [st |-> "ok", val |-> v]
Raise(e) == [st |-> e]

\* Python's a / b on floats: ZeroDivisionError when b == 0.
PyDiv(a, b) ==
    IF IsZero(b) THEN Raise("ZeroDivisionError") ELSE Val(RDiv(a, b))

\* Python's a ** b on floats.  0 ** negative raises ZeroDivisionError;
\* x ** 0 is 1 for every x, including 0.
PyPow(a, b) ==
    IF IsInt(b)
    THEN LET n == IPow(a.num, Abs(b.num))
             d == IPow(a.den, Abs(b.num))
         IN  IF b.num < 0 /\ IsZero(a) THEN Raise("ZeroDivisionError")
             ELSE IF Abs(n) > MaxPow \/ d > MaxPow THEN Raise("inexact")
             ELSE IF b.num >= 0 THEN Val(Rat(n, d)) ELSE Val(Rat(d, n))
    ELSE IF IsZero(a)
         THEN IF b.num > 0 THEN Val(Whole(0)) ELSE Raise("ZeroDivisionError")
         ELSE IF IsOne(a) THEN Val(Whole(1)) ELSE Raise("inexact")

----------------------------------------------------------------------------
(* Expression trees: nodes.py                                              *)

Number(v) == [kind |-> "Number", value |-> v]
Variable(n) == [kind |-> "Variable", name |-> n]
BinaryOp(l, o, r) ==
    [kind |-> "BinaryOp", left |-> l, operator |-> o, right |-> r]

IsNumber(t) == t.kind = "Number"
IsVariable(t) == t.kind = "Variable"
IsBinaryOp(t) == t.kind = "BinaryOp"

Operators == {"+", "-", "*", "/", "^"}
Names == {"x", "y"}
Literals == 0 .. MaxLit

Ok(t) == [st |-> "ok", node |-> t]
None == [st |-> "none"]


\* Number.differentiate, nodes.py:121-128
NumberDifferentiate(t, variable) == Ok(Number(Whole(0)))

\* Every Variable taken for the variable of differentiation
VariableDifferentiateAlwaysOne(t, variable) == Ok(Number(Whole(1)))

\* Variable.differentiate, nodes.py:164-175
VariableDifferentiate(t, variable) ==
    IF t.name = variable THEN Ok(Number(Whole(1))) ELSE Ok(Number(Whole(0)))

\* Sum and difference rules, nodes.py:253-266
SumRule(left_diff, operator, right_diff) ==
    BinaryOp(left_diff, operator, right_diff)

\* A product rule with the sign of the quotient rule's numerator
ProductRuleMinus(left, right, left_diff, right_diff) ==
    BinaryOp(BinaryOp(left_diff, "*", right), "-",
             BinaryOp(left, "*", right_diff))

\* Product rule, nodes.py:271-275
ProductRule(left, right, left_diff, right_diff) ==
    BinaryOp(BinaryOp(left_diff, "*", right), "+",
             BinaryOp(left, "*", right_diff))

\* Quotient rule, nodes.py:280-286
QuotientRule(left, right, left_diff, right_diff) ==
    LET numerator == BinaryOp(BinaryOp(left_diff, "*", right), "-",
                              BinaryOp(left, "*", right_diff))
        denominator == BinaryOp(right, "^", Number(Whole(2)))
    IN  BinaryOp(numerator, "/", denominator)

\* A power rule without the chain-rule factor f'
PowerRuleWithoutChain(f, n, f_prime) ==
    IF IsOne(n) THEN f_prime
    ELSE IF IsZero(n) THEN Number(Whole(0))
    ELSE BinaryOp(Number(n), "*", BinaryOp(f, "^", Number(RSub(n, Whole(1)))))

\* Power rule for a Number exponent n, nodes.py:296-306
PowerRule(f, n, f_prime) ==
    IF IsOne(n) THEN f_prime
    ELSE IF IsZero(n) THEN Number(Whole(0))
    ELSE LET power_part == BinaryOp(f, "^", Number(RSub(n, Whole(1))))
             coefficient_part == BinaryOp(Number(n), "*", power_part)
         IN  BinaryOp(coefficient_part, "*", f_prime)

\* The exception of the other branch, nodes.py:312
UnsupportedExponentAsValueError == Raise("ValueError")

\* A non-constant exponent, nodes.py:307-310
UnsupportedExponent == Raise("NotImplementedError")

RECURSIVE Differentiate(_, _)

\* The exponent looked at before the base is differentiated: f^0 gives
\* Number(0) whatever f is
DifferentiateExponentFirst(t, variable) ==
    IF IsNumber(t) THEN NumberDifferentiate(t, variable)
    ELSE IF IsVariable(t) THEN VariableDifferentiate(t, variable)
    ELSE IF t.operator \in {"+", "-", "*", "/"}
    THEN LET dl == Differentiate(t.left, variable) IN
         IF dl.st # "ok" THEN dl ELSE
         LET dr == Differentiate(t.right, variable) IN
         IF dr.st # "ok" THEN dr ELSE
         IF t.operator \in {"+", "-"}
         THEN Ok(SumRule(dl.node, t.operator, dr.node))
         ELSE IF t.operator = "*"
         THEN Ok(ProductRule(t.left, t.right, dl.node, dr.node))
         ELSE Ok(QuotientRule(t.left, t.right, dl.node, dr.node))
    ELSE IF t.operator = "^"
    THEN IF IsNumber(t.right)
         THEN IF IsZero(t.right.value) THEN Ok(Number(Whole(0)))
              ELSE LET f_prime == Differentiate(t.left, variable) IN
                   IF f_prime.st # "ok" THEN f_prime
                   ELSE Ok(PowerRule(t.left, t.right.value, f_prime.node))
         ELSE UnsupportedExponent
    ELSE Raise("ValueError")

\* Node.differentiate: [st |-> "ok", node |-> derivative], or the exception.
\* Children are differentiated left first; an exception raised below
\* propagates unchanged.
Differentiate(t, variable) ==
    IF IsNumber(t) THEN NumberDifferentiate(t, variable)
    ELSE IF IsVariable(t) THEN VariableDifferentiate(t, variable)
    ELSE IF t.operator \in {"+", "-", "*", "/"}
    THEN LET dl == Differentiate(t.left, variable) IN
         IF dl.st # "ok" THEN dl ELSE
         LET dr == Differentiate(t.right, variable) IN
         IF dr.st # "ok" THEN dr ELSE
         IF t.operator \in {"+", "-"}
         THEN Ok(SumRule(dl.node, t.operator, dr.node))
         ELSE IF t.operator = "*"
         THEN Ok(ProductRule(t.left, t.right, dl.node, dr.node))
         ELSE Ok(QuotientRule(t.left, t.right, dl.node, dr.node))
    ELSE IF t.operator = "^"
    THEN IF IsNumber(t.right)
         THEN LET f_prime == Differentiate(t.left, variable) IN
              IF f_prime.st # "ok" THEN f_prime
              ELSE Ok(PowerRule(t.left, t.right.value, f_prime.node))
         ELSE UnsupportedExponent
    ELSE Raise("ValueError")

\* BinaryOp.evaluate dividing without the test of the divisor
ApplyOperatorUnguarded(operator, left_val, right_val) ==
    IF operator = "+" THEN Val(RAdd(left_val, right_val))
    ELSE IF operator = "-" THEN Val(RSub(left_val, right_val))
    ELSE IF operator = "*" THEN Val(RMul(left_val, right_val))
    ELSE IF operator = "/" THEN PyDiv(left_val, right_val)
    ELSE IF operator = "^" THEN PyPow(left_val, right_val)
    ELSE Raise("ValueError")

\* Node.evaluate, nodes.py:113-119, 152-162, 211-235.  variables is a
\* function from the bound names to their values, or None.  The left
\* operand is evaluated first.
ApplyOperator(operator, left_val, right_val) ==
    IF operator = "+" THEN Val(RAdd(left_val, right_val))
    ELSE IF operator = "-" THEN Val(RSub(left_val, right_val))
    ELSE IF operator = "*" THEN Val(RMul(left_val, right_val))
    ELSE IF operator = "/"
    THEN IF IsZero(right_val) THEN Raise("DivisionByZero")
         ELSE PyDiv(left_val, right_val)
    ELSE IF operator = "^" THEN PyPow(left_val, right_val)
    ELSE Raise("ValueError")

RECURSIVE Evaluate(_, _)
Evaluate(t, variables) ==
    IF IsNumber(t) THEN Val(t.value)
    ELSE IF IsVariable(t)
    THEN IF variables = None \/ t.name \notin DOMAIN variables
         THEN [st |-> "UndefinedVariable", name |-> t.name]
         ELSE Val(variables[t.name])
    ELSE LET left_val == Evaluate(t.left, variables) IN
         IF left_val.st # "ok" THEN left_val ELSE
         LET right_val == Evaluate(t.right, variables) IN
         IF right_val.st # "ok" THEN right_val ELSE
         ApplyOperator(t.operator, left_val.val, right_val.val)

----------------------------------------------------------------------------
(* Simplifier: simplifier.py                                               *)

IsNum(t, i) == IsNumber(t) /\ t.value = Whole(i)

\* A folded constant, or the exception the arithmetic raised.
Fold(v) == IF v.st = "ok" THEN Ok(Number(v.val)) ELSE v

\* simplifier.py:91-100
SimplifyAdd(left, right) ==
    IF IsNum(right, 0) THEN Ok(left)
    ELSE IF IsNum(left, 0) THEN Ok(right)
    ELSE IF IsNumber(left) /\ IsNumber(right)
    THEN Ok(Number(RAdd(left.value, right.value)))
    ELSE Ok(BinaryOp(left, "+", right))

\* 0 - x rewritten as 0 + (-1 * x), as the comment at simplifier.py:107
\* proposes
SimplifySubAsNegation(left, right) ==
    IF IsNum(right, 0) THEN Ok(left)
    ELSE IF IsNum(left, 0)
    THEN Ok(BinaryOp(Number(Whole(0)), "+",
                     BinaryOp(Number(Whole(-1)), "*", right)))
    ELSE IF IsNumber(left) /\ IsNumber(right)
    THEN Ok(Number(RSub(left.value, right.value)))
    ELSE Ok(BinaryOp(left, "-", right))

\* simplifier.py:103-112
SimplifySub(left, right) ==
    IF IsNum(right, 0) THEN Ok(left)
    ELSE IF IsNum(left, 0) THEN Ok(BinaryOp(Number(Whole(0)), "-", right))
    ELSE IF IsNumber(left) /\ IsNumber(right)
    THEN Ok(Number(RSub(left.value, right.value)))
    ELSE Ok(BinaryOp(left, "-", right))

\* The zero rule looking at the right operand only
SimplifyMulRightZeroOnly(left, right) ==
    IF IsNum(right, 0) THEN Ok(Number(Whole(0)))
    ELSE IF IsNum(right, 1) THEN Ok(left)
    ELSE IF IsNum(left, 1) THEN Ok(right)
    ELSE IF IsNumber(left) /\ IsNumber(right)
    THEN Ok(Number(RMul(left.value, right.value)))
    ELSE Ok(BinaryOp(left, "*", right))

\* simplifier.py:115-128
SimplifyMul(left, right) ==
    IF IsNum(left, 0) \/ IsNum(right, 0) THEN Ok(Number(Whole(0)))
    ELSE IF IsNum(right, 1) THEN Ok(left)
    ELSE IF IsNum(left, 1) THEN Ok(right)
    ELSE IF IsNumber(left) /\ IsNumber(right)
    THEN Ok(Number(RMul(left.value, right.value)))
    ELSE Ok(BinaryOp(left, "*", right))

\* Without the rule 0 / x = 0
SimplifyDivWithoutZeroRule(left, right) ==
    IF IsNum(right, 1) THEN Ok(left)
    ELSE IF IsNumber(left) /\ IsNumber(right)
    THEN Fold(PyDiv(left.value, right.value))
    ELSE Ok(BinaryOp(left, "/", right))

\* simplifier.py:131-140
SimplifyDiv(left, right) ==
    IF IsNum(right, 1) THEN Ok(left)
    ELSE IF IsNum(left, 0) THEN Ok(Number(Whole(0)))
    ELSE IF IsNumber(left) /\ IsNumber(right)
    THEN Fold(PyDiv(left.value, right.value))
    ELSE Ok(BinaryOp(left, "/", right))

\* With a rule 0 ^ x = 0 before x ^ 0 = 1
SimplifyPowZeroBase(left, right) ==
    IF IsNum(right, 1) THEN Ok(left)
    ELSE IF IsNum(left, 0) THEN Ok(Number(Whole(0)))
    ELSE IF IsNum(right, 0) THEN Ok(Number(Whole(1)))
    ELSE IF IsNumber(left) /\ IsNumber(right)
    THEN Fold(PyPow(left.value, right.value))
    ELSE Ok(BinaryOp(left, "^", right))

\* simplifier.py:143-152
SimplifyPow(left, right) ==
    IF IsNum(right, 1) THEN Ok(left)
    ELSE IF IsNum(right, 0) THEN Ok(Number(Whole(1)))
    ELSE IF IsNumber(left) /\ IsNumber(right)
    THEN Fold(PyPow(left.value, right.value))
    ELSE Ok(BinaryOp(left, "^", right))

\* Simplifier._simplify_binary_op, simplifier.py:74-155
SimplifyBinaryOp(left, operator, right) ==
    IF operator = "+" THEN SimplifyAdd(left, right)
    ELSE IF operator = "-" THEN SimplifySub(left, right)
    ELSE IF operator = "*" THEN SimplifyMul(left, right)
    ELSE IF operator = "/" THEN SimplifyDiv(left, right)
    ELSE IF operator = "^" THEN SimplifyPow(left, right)
    ELSE Ok(BinaryOp(left, operator, right))

\* The rules applied at the root only, the children left as they are
SimplifyRootOnly(node) ==
    IF IsNumber(node) \/ IsVariable(node) THEN Ok(node)
    ELSE SimplifyBinaryOp(node.left, node.operator, node.right)

\* Simplifier.simplify, simplifier.py:44-72: children first, left before
\* right, then the rules of the node, once.
RECURSIVE Simplify(_)
Simplify(node) ==
    IF IsNumber(node) \/ IsVariable(node) THEN Ok(node)
    ELSE LET left_simplified == Simplify(node.left) IN
         IF left_simplified.st # "ok" THEN left_simplified ELSE
         LET right_simplified == Simplify(node.right) IN
         IF right_simplified.st # "ok" THEN right_simplified ELSE
         SimplifyBinaryOp(left_simplified.node, node.operator,
                          right_simplified.node)

----------------------------------------------------------------------------
(* Tokens (tokenizer.py:29-48) and the parser (parser.py)                  *)

\* Token.value is a float, a one-character string or None.
Str(c) == [str |-> c]
NoValue == [none |-> TRUE]
Token(type, value) == [type |-> type, value |-> value]
NumberToken(i) == Token("NUMBER", Whole(i))
VariableToken(n) == Token("VARIABLE", Str(n))
OperatorToken(o) == Token("OPERATOR", Str(o))
LParen == Token("LPAREN", NoValue)
RParen == Token("RPAREN", NoValue)
EOF == Token("EOF", NoValue)

\* Parser._is_at_end, parser.py:219-227.  current_pos counts from 0.
IsAtEnd(toks, current_pos) ==
    current_pos >= Len(toks) \/ toks[current_pos + 1].type = "EOF"

\* Parser._match, parser.py:161-189: whether the current token has the
\* type (and the value, when one is given); the caller then stands one
\* token further.
Match(toks, current_pos, token_type, value) ==
    /\ ~IsAtEnd(toks, current_pos)
    /\ toks[current_pos + 1].type = token_type
    /\ value # NoValue => toks[current_pos + 1].value = value

\* '-' taken at the level of '*' and '/'
MultiplicationOperatorsWithMinus == {"*", "/", "-"}

\* The operators each precedence level loops on, parser.py:94 and 112.
AdditionOperators == {"+", "-"}
MultiplicationOperators == {"*", "/"}

MatchOperator(toks, current_pos, operators) ==
    \E o \in operators : Match(toks, current_pos, "OPERATOR", Str(o))

Parsed(node, current_pos) == [st |-> "ok", node |-> node, pos |-> current_pos]
ParseError(reason, current_pos) ==
    [st |-> "ValueError", reason |-> reason, pos |-> current_pos]

RECURSIVE ParseAddition(_, _)
RECURSIVE AdditionLoop(_, _, _)
RECURSIVE ParseMultiplication(_, _)
RECURSIVE MultiplicationLoop(_, _, _)
RECURSIVE ParseExponentiation(_, _)
RECURSIVE ParsePrimary(_, _)

\* _parse_primary taking '(' expression with or without the ')'
ParsePrimaryUnclosed(toks, current_pos) ==
    IF Match(toks, current_pos, "NUMBER", NoValue)
    THEN Parsed(Number(toks[current_pos + 1].value), current_pos + 1)
    ELSE IF Match(toks, current_pos, "VARIABLE", NoValue)
    THEN Parsed(Variable(toks[current_pos + 1].value.str), current_pos + 1)
    ELSE IF Match(toks, current_pos, "LPAREN", NoValue)
    THEN LET expr == ParseAddition(toks, current_pos + 1) IN
         IF expr.st # "ok" THEN expr
         ELSE IF Match(toks, expr.pos, "RPAREN", NoValue)
         THEN Parsed(expr.node, expr.pos + 1)
         ELSE expr
    ELSE ParseError("Expected number, variable, or '('", current_pos)

\* Parser._parse_primary, parser.py:136-159.  The last error is built
\* from _peek(), which itself raises at the end of the input.
ParsePrimary(toks, current_pos) ==
    IF Match(toks, current_pos, "NUMBER", NoValue)
    THEN Parsed(Number(toks[current_pos + 1].value), current_pos + 1)
    ELSE IF Match(toks, current_pos, "VARIABLE", NoValue)
    THEN Parsed(Variable(toks[current_pos + 1].value.str), current_pos + 1)
    ELSE IF Match(toks, current_pos, "LPAREN", NoValue)
    THEN LET expr == ParseAddition(toks, current_pos + 1) IN
         IF expr.st # "ok" THEN expr
         ELSE IF Match(toks, expr.pos, "RPAREN", NoValue)
         THEN Parsed(expr.node, expr.pos + 1)
         ELSE ParseError("Expected ')' after expression", expr.pos)
    ELSE IF IsAtEnd(toks, current_pos)
    THEN ParseError("Unexpected end of input", current_pos)
    ELSE ParseError("Expected number, variable, or '('", current_pos)

\* The right operand of '^' parsed as a primary, without the recursion
ParseExponentRightPrimary(toks, current_pos) ==
    ParsePrimary(toks, current_pos)

\* The right operand of '^', parser.py:131
ParseExponentRight(toks, current_pos) ==
    ParseExponentiation(toks, current_pos)

\* Parser._parse_exponentiation, parser.py:119-134
ParseExponentiation(toks, current_pos) ==
    LET left == ParsePrimary(toks, current_pos) IN
    IF left.st # "ok" THEN left
    ELSE IF Match(toks, left.pos, "OPERATOR", Str("^"))
    THEN LET right == ParseExponentRight(toks, left.pos + 1) IN
         IF right.st # "ok" THEN right
         ELSE Parsed(BinaryOp(left.node, "^", right.node), right.pos)
    ELSE left

\* The while loop of _parse_multiplication, parser.py:112-117
MultiplicationLoop(toks, left, current_pos) ==
    IF MatchOperator(toks, current_pos, MultiplicationOperators)
    THEN LET operator == toks[current_pos + 1].value.str
             right == ParseExponentiation(toks, current_pos + 1)
         IN  IF right.st # "ok" THEN right
             ELSE MultiplicationLoop(toks,
                      BinaryOp(left, operator, right.node), right.pos)
    ELSE Parsed(left, current_pos)

\* Parser._parse_multiplication, parser.py:101-117
ParseMultiplication(toks, current_pos) ==
    LET left == ParseExponentiation(toks, current_pos) IN
    IF left.st # "ok" THEN left
    ELSE MultiplicationLoop(toks, left.node, left.pos)

\* The while loop of _parse_addition, parser.py:94-99
AdditionLoop(toks, left, current_pos) ==
    IF MatchOperator(toks, current_pos, AdditionOperators)
    THEN LET operator == toks[current_pos + 1].value.str
             right == ParseMultiplication(toks, current_pos + 1)
         IN  IF right.st # "ok" THEN right
             ELSE AdditionLoop(toks,
                      BinaryOp(left, operator, right.node), right.pos)
    ELSE Parsed(left, current_pos)

\* Parser._parse_addition, parser.py:83-99
ParseAddition(toks, current_pos) ==
    LET left == ParseMultiplication(toks, current_pos) IN
    IF left.st # "ok" THEN left
    ELSE AdditionLoop(toks, left.node, left.pos)

\* parse returning what _parse_addition built, wherever the cursor stands
ParseWithoutEndCheck(toks) ==
    IF toks = <<>> THEN ParseError("No tokens to parse", 0)
    ELSE ParseAddition(toks, 0)

\* Parser.parse, parser.py:57-81, on a new Parser (current_pos = 0)
Parse(toks) ==
    IF toks = <<>> THEN ParseError("No tokens to parse", 0)
    ELSE LET result == ParseAddition(toks, 0) IN
         IF result.st # "ok" THEN result
         ELSE IF ~IsAtEnd(toks, result.pos)
         THEN ParseError("Unexpected token", result.pos)
         ELSE result

----------------------------------------------------------------------------
(* The tokenizer: tokenizer.py.  A string is the sequence of its           *)
(* characters; positions count from 0 as in the program.                   *)

DigitChars == <<"0", "1", "2", "3", "4", "5", "6", "7", "8", "9">>
Digits == {DigitChars[i] : i \in DOMAIN DigitChars}
DigitValue(c) == (CHOOSE i \in DOMAIN DigitChars : DigitChars[i] = c) - 1

\* str.isspace, str.isdigit and str.isalpha on the characters of the
\* explored strings
IsSpace(c) == c \in {" ", "\t", "\n"}
IsDigit(c) == c \in Digits
IsAlpha(c) == c \in {"x", "y", "z", "e"}
OperatorChars == {"+", "-", "*", "/", "^"}

\* str.strip(), tokenizer.py:88
RECURSIVE LStrip(_)
LStrip(s) ==
    IF s # <<>> /\ IsSpace(Head(s)) THEN LStrip(Tail(s)) ELSE s

RECURSIVE RStrip(_)
RStrip(s) ==
    IF s # <<>> /\ IsSpace(s[Len(s)])
    THEN RStrip(SubSeq(s, 1, Len(s) - 1)) ELSE s

Strip(s) == RStrip(LStrip(s))

Count(s, c) == Cardinality({i \in DOMAIN s : s[i] = c})

\* The integer written by a sequence of digits
RECURSIVE IntOf(_)
IntOf(ds) ==
    IF ds = <<>> THEN 0
    ELSE 10 * IntOf(SubSeq(ds, 1, Len(ds) - 1)) + DigitValue(ds[Len(ds)])

\* float(number_str), tokenizer.py:151, on a string of an optional '-',
\* digits and '.': ValueError unless there is a digit and at most one '.'.
Float(number_str) ==
    LET negative == number_str # <<>> /\ Head(number_str) = "-"
        body == IF negative THEN Tail(number_str) ELSE number_str
        digits == SelectSeq(body, IsDigit)
        point == IF Count(body, ".") = 0 THEN Len(body) + 1
                 ELSE CHOOSE i \in DOMAIN body : body[i] = "."
        magnitude == Rat(IntOf(digits), IPow(10, Len(body) - point))
    IN  IF digits = <<>> \/ Count(body, ".") > 1 THEN Raise("ValueError")
        ELSE IF Count(body, ".") = 0 THEN Val(Whole(IntOf(digits)))
        ELSE IF negative THEN Val(RSub(Whole(0), magnitude))
        ELSE Val(magnitude)

Lexed(token, current_pos) ==
    [st |-> "ok", token |-> token, pos |-> current_pos]

\* The errors of tokenizer.py:117 and 154: the f-string's two values
InvalidCharacter(char, current_pos) ==
    [st |-> "ValueError", reason |-> "Invalid character",
     what |-> <<char>>, pos |-> current_pos]
InvalidNumber(number_str, start_pos) ==
    [st |-> "ValueError", reason |-> "Invalid number",
     what |-> number_str, pos |-> start_pos]

\* The while loop of _parse_number, tokenizer.py:144-147: where the
\* digits and '.' from current_pos on end
RECURSIVE NumberEnd(_, _)
NumberEnd(s, current_pos) ==
    IF current_pos < Len(s)
       /\ (IsDigit(s[current_pos + 1]) \/ s[current_pos + 1] = ".")
    THEN NumberEnd(s, current_pos + 1) ELSE current_pos

\* Tokenizer._parse_number, tokenizer.py:123-154
ParseNumber(s, current_pos) ==
    LET start_pos == current_pos
        negative == current_pos < Len(s) /\ s[current_pos + 1] = "-"
        after_sign == IF negative THEN current_pos + 1 ELSE current_pos
        end == NumberEnd(s, after_sign)
        number_str == (IF negative THEN <<"-">> ELSE <<>>)
                      \o SubSeq(s, after_sign + 1, end)
        value == Float(number_str)
    IN  IF value.st = "ok" THEN Lexed(Token("NUMBER", value.val), end)
        ELSE InvalidNumber(number_str, start_pos)

\* Tokenizer._parse_variable, tokenizer.py:156-170
ParseVariable(s, current_pos) ==
    LET char == s[current_pos + 1]
    IN  IF ~IsAlpha(char) THEN Raise("ValueError")
        ELSE Lexed(Token("VARIABLE", Str(char)), current_pos + 1)

\* Tokenizer._parse_operator, tokenizer.py:172-191
ParseOperator(s, current_pos) ==
    LET char == s[current_pos + 1]
    IN  IF char \notin OperatorChars THEN Raise("ValueError")
        ELSE Lexed(Token("OPERATOR", Str(char)), current_pos + 1)

\* The test of tokenizer.py:98
StartsNumber(s, current_pos) ==
    LET char == s[current_pos + 1]
    IN  IsDigit(char) \/ char = "."

\* The while loop of tokenize, tokenizer.py:92-117, on the stripped text
RECURSIVE Scan(_, _, _)
Scan(s, current_pos, toks) ==
    IF current_pos >= Len(s) THEN [st |-> "ok", tokens |-> toks]
    ELSE LET char == s[current_pos + 1]
             step == IF StartsNumber(s, current_pos)
                     THEN ParseNumber(s, current_pos)
                     ELSE IF IsAlpha(char) THEN ParseVariable(s, current_pos)
                     ELSE IF char \in OperatorChars
                     THEN ParseOperator(s, current_pos)
                     ELSE IF char = "(" THEN Lexed(LParen, current_pos + 1)
                     ELSE IF char = ")" THEN Lexed(RParen, current_pos + 1)
                     ELSE InvalidCharacter(char, current_pos)
         IN  IF IsSpace(char) THEN Scan(s, current_pos + 1, toks)
             ELSE IF step.st # "ok" THEN step
             ELSE Scan(s, step.pos, Append(toks, step.token))

\* No end-of-input marker added
WithoutEOF(toks) == toks

\* The end-of-input marker, tokenizer.py:119-120
WithEOF(toks) == Append(toks, EOF)

\* Tokenizer.tokenize, tokenizer.py:71-121
Tokenize(s) ==
    LET scanned == Scan(Strip(s), 0, <<>>)
    IN  IF scanned.st # "ok" THEN scanned
        ELSE [st |-> "ok", tokens |-> WithEOF(scanned.tokens)]

\* parse_expression, parser.py:230-252: a tree with the tokens it was
\* parsed from, or the exception of tokenize or of parse
ParseExpression(s) ==
    LET toks == Tokenize(s)
    IN  IF toks.st # "ok" THEN toks ELSE Parse(toks.tokens)

----------------------------------------------------------------------------
(* Display: Node.__str__, nodes.py:130-132, 177-179, 314-332               *)

\* The decimal digits of n >= 0
RECURSIVE IntStr(_)
IntStr(n) ==
    IF n < 10 THEN <<DigitChars[n + 1]>>
    ELSE IntStr(n \div 10) \o <<DigitChars[(n % 10) + 1]>>

\* str(self.value), nodes.py:132, for a whole value below 10^16: the
\* digits of an int (as in Number(0), nodes.py:128), and the digits
\* followed by ".0" of a float (as in a parsed literal, tokenizer.py:151).
NumberStr(value, number_type) ==
    (IF value.num < 0 THEN <<"-">> ELSE <<>>)
    \o IntStr(Abs(value.num))
    \o (IF number_type = "float" THEN <<".", "0">> ELSE <<>>)

\* Node.__str__ of a tree whose Number values all have the type
RECURSIVE NodeStr(_, _)
NodeStr(t, number_type) ==
    IF IsNumber(t) THEN NumberStr(t.value, number_type)
    ELSE IF IsVariable(t) THEN <<t.name>>
    ELSE LET left_str == NodeStr(t.left, number_type)
             right_str == NodeStr(t.right, number_type)
         IN  (IF IsBinaryOp(t.left)
              THEN <<"(">> \o left_str \o <<")">> ELSE left_str)
             \o <<" ", t.operator, " ">>
             \o (IF IsBinaryOp(t.right)
                 THEN <<"(">> \o right_str \o <<")">> ELSE right_str)

\* Whether every Number of the tree holds a whole value
RECURSIVE AllWhole(_)
AllWhole(t) ==
    IF IsNumber(t) THEN IsInt(t.value)
    ELSE IF IsVariable(t) THEN TRUE
    ELSE AllWhole(t.left) /\ AllWhole(t.right)

----------------------------------------------------------------------------
(* Inputs                                                                  *)

Leaves == {Number(Whole(i)) : i \in Literals} \cup {Variable(n) : n \in Names}

Lit(i) == Number(Whole(i))
X == Variable("x")
Y == Variable("y")

OneOp == {BinaryOp(l, o, r) : l \in Leaves, o \in Operators, r \in Leaves}

TwoOps ==
    {BinaryOp(l, o, r) : l \in OneOp, o \in Operators, r \in Leaves}
    \cup {BinaryOp(l, o, r) : l \in Leaves, o \in Operators, r \in OneOp}

\* Expressions of the program's own examples: simplifier.py:20-24 and
\* 176-182, parser.py:258-266; the negative Number of nodes.py:105.
Examples ==
    { BinaryOp(BinaryOp(BinaryOp(Lit(0), "*", X), "+",
                        BinaryOp(Lit(2), "*", Lit(1))), "+", Lit(0)),
      BinaryOp(BinaryOp(Lit(3), "*", BinaryOp(X, "^", Lit(2))), "*", Lit(1)),
      BinaryOp(BinaryOp(Lit(2), "*", X), "+", Lit(3)),
      BinaryOp(X, "^", Lit(3)),
      BinaryOp(BinaryOp(BinaryOp(X, "^", Lit(2)), "+",
                        BinaryOp(Lit(2), "*", X)), "+", Lit(1)),
      BinaryOp(BinaryOp(X, "+", Lit(1)), "^", Lit(2)),
      BinaryOp(BinaryOp(BinaryOp(Lit(2), "*", X), "+", Lit(1)), "^", Lit(3)),
      BinaryOp(BinaryOp(X, "^", Lit(3)), "-", BinaryOp(Lit(2), "*", X)),
      BinaryOp(Lit(2), "^", BinaryOp(Lit(3), "^", Lit(2))),
      BinaryOp(BinaryOp(Lit(2), "*", Lit(3)), "+",
               BinaryOp(Lit(4), "*", Lit(5))),
      BinaryOp(BinaryOp(X, "+", Lit(1)), "*", BinaryOp(X, "-", Lit(1))),
      Lit(-2),
      BinaryOp(X, "-", Lit(-2)) }

\* Variable-free trees of three '+' and '*' over 0, 1 and 2
ConstantTrees ==
    LET leaves == {Lit(i) : i \in {0, 1, 2}}
        ops == {"+", "*"}
        one == {BinaryOp(l, o, r) : l \in leaves, o \in ops, r \in leaves}
        two == {BinaryOp(l, o, r) : l \in one, o \in ops, r \in leaves}
               \cup {BinaryOp(l, o, r) : l \in leaves, o \in ops, r \in one}
    IN  {BinaryOp(l, o, r) : l \in two, o \in ops, r \in leaves}
        \cup {BinaryOp(l, o, r) : l \in leaves, o \in ops, r \in two}
        \cup {BinaryOp(l, o, r) : l \in one, o \in ops, r \in one}

\* Every tree of at most two operators over the leaves, the examples and
\* the constant trees of three operators.
Trees == Leaves \cup OneOp \cup TwoOps \cup Examples \cup ConstantTrees

OperandTokens == {NumberToken(2), VariableToken("x")}
OperatorTokens == {OperatorToken(o) : o \in Operators}
Alphabet == OperandTokens \cup OperatorTokens \cup {LParen, RParen}

\* every list of at most m tokens
ShortLists(m) == UNION {[1 .. n -> Alphabet] : n \in 0 .. m}

\* operand (operator operand)* with k operands
RECURSIVE Chains(_)
Chains(k) ==
    IF k = 1 THEN {<<a>> : a \in OperandTokens}
    ELSE {c \o <<o, a>> : c \in Chains(k - 1), o \in OperatorTokens,
                          a \in OperandTokens}

\* a chain of three operands with two or three of them in parentheses
ParenChains(c3) ==
        {<<LParen>> \o SubSeq(c, 1, 3) \o <<RParen>> \o SubSeq(c, 4, 5) : c \in c3}
        \cup {SubSeq(c, 1, 2) \o <<LParen>> \o SubSeq(c, 3, 5) \o <<RParen>> : c \in c3}
        \cup {<<LParen>> \o c \o <<RParen>> : c \in c3}

\* The expressions of parser.py:258-266
ExampleTokens ==
    { <<NumberToken(2), OperatorToken("*"), VariableToken("x"),
        OperatorToken("+"), NumberToken(3)>>,
      <<LParen, VariableToken("x"), OperatorToken("+"), NumberToken(1),
        RParen, OperatorToken("^"), NumberToken(2)>>,
      <<VariableToken("x"), OperatorToken("^"), NumberToken(3),
        OperatorToken("-"), NumberToken(2), OperatorToken("*"),
        VariableToken("x")>>,
      <<Token("NUMBER", Rat(11, 2)), OperatorToken("/"),
        Token("NUMBER", Rat(11, 5))>>,
      <<VariableToken("x"), OperatorToken("+"), VariableToken("y"),
        OperatorToken("-"), VariableToken("z")>>,
      <<NumberToken(2), OperatorToken("^"), NumberToken(3),
        OperatorToken("^"), NumberToken(2)>>,
      <<NumberToken(2), OperatorToken("*"), NumberToken(3),
        OperatorToken("+"), NumberToken(4), OperatorToken("*"),
        NumberToken(5)>> }

\* "(x + 1": the parenthesis is not closed
UnclosedTokens ==
    <<LParen, VariableToken("x"), OperatorToken("+"), NumberToken(1)>>

\* What tokenize returns ends with the EOF token (tokenizer.py:120); a
\* Parser can also be given the empty list.
TokenLists(m, n) ==
    LET chains == UNION {Chains(k) : k \in 1 .. n}
    IN  {q \o <<EOF>> :
            q \in ShortLists(m) \cup chains \cup ExampleTokens
                  \cup {UnclosedTokens}
                  \cup ParenChains({c \in chains : Len(c) = 5})}
        \cup {<<>>}

\* The Calculator calls evaluate with a dict (main.py:96); evaluate's
\* default is None (nodes.py:152).
EvalValues == {Whole(0), Whole(1)}
EvalBindings == {None} \cup UNION {[D -> EvalValues] : D \in SUBSET Names}

TextChars == {"2", ".", "x", "y", "-", "(", ")", " ", "&"}

\* Strings of the program's examples (parser.py:258-266, tokenizer.py:20-22)
\* and of its uses: an invalid character, an open parenthesis, adjacent
\* letters, a sign before a digit, tabs and line ends.
ExampleTexts ==
    { <<"2", " ", "&", " ", "3">>,
      <<"(", "x", " ", "+", " ", "1">>,
      <<"x", "y">>,
      <<"-", "2">>,
      <<"x", " ", "-", " ", "2">>,
      <<"x", " ", "-", "2">>,
      <<"x", "/", "0">>,
      <<"0", " ", "+", " ", "(", "2", "*", "1", ")">>,
      <<"2", "*", "3", " ", "+", " ", "4", "*", "5">>,
      <<"2", "^", "3", "^", "2">>,
      <<"2", "*", "x", " ", "+", " ", "3">>,
      <<"(", "x", " ", "+", " ", "1", ")", "^", "2">>,
      <<"5", ".", "5", " ", "/", " ", "2", ".", "2">>,
      <<" ", " ", "2", " ", "&", " ", "3">>,
      <<"1", ".", "2", ".", "3", " ", "&">>,
      <<"x", " ", "+", " ", "y", " ", "-", " ", "z">>,
      <<"x", "\t", "+", "\n", "2">> }

\* every string of at most m characters, and the examples
Texts(m) == UNION {[1 .. n -> TextChars] : n \in 0 .. m} \cup ExampleTexts

----------------------------------------------------------------------------
(* Operations on a tree                                                    *)

InitTree ==
    /\ text = <<>>
    /\ tokens = <<>>
    /\ tree \in Trees
    /\ call = "init"
    /\ arg = "-"
    /\ out = None
    /\ heap = <<>>
    /\ self = None
    /\ history = <<>>

\* tree.differentiate(variable), main.py:71
DoDifferentiate ==
    /\ call = "init"
    /\ \E variable \in Names :
        /\ arg' = variable
        /\ out' = Differentiate(tree, variable)
    /\ call' = "differentiate"
    /\ UNCHANGED <<text, tokens, tree, heap, self, history>>

\* simplify_expression(tree), simplifier.py:158-168
DoSimplify ==
    /\ call = "init"
    /\ Simplify(tree).st # "inexact"
    /\ out' = Simplify(tree)
    /\ call' = "simplify"
    /\ UNCHANGED <<text, tokens, tree, arg, heap, self, history>>

\* simplify_expression(derivative), main.py:74
DoSimplifyDerivative ==
    /\ call = "differentiate"
    /\ out.st = "ok"
    /\ Simplify(out.node).st # "inexact"
    /\ tree' = out.node
    /\ out' = Simplify(out.node)
    /\ call' = "simplify"
    /\ UNCHANGED <<text, tokens, arg, heap, self, history>>

\* tree.evaluate(variables), main.py:96
DoEvaluate ==
    /\ call = "init"
    /\ \E variables \in EvalBindings :
        /\ Evaluate(tree, variables).st # "inexact"
        /\ arg' = variables
        /\ out' = Evaluate(tree, variables)
    /\ call' = "evaluate"
    /\ UNCHANGED <<text, tokens, tree, heap, self, history>>

\* str(tree), nodes.py:314-332, of a tree whose Numbers are all ints or all
\* floats with whole values
DoStr ==
    /\ call = "init"
    /\ AllWhole(tree)
    /\ \E number_type \in {"int", "float"} :
        /\ arg' = number_type
        /\ text' = NodeStr(tree, number_type)
    /\ call' = "str"
    /\ UNCHANGED <<tokens, tree, out, heap, self, history>>

\* parse_expression(text), parser.py:230-252, of a given string or of the
\* string a tree was displayed as
DoParseExpression ==
    /\ call \in {"init", "str"}
    /\ call = "init" => tree = None
    /\ tokens' = IF Tokenize(text).st = "ok" THEN Tokenize(text).tokens
                 ELSE tokens
    /\ out' = ParseExpression(text)
    /\ call' = "parse_expression"
    /\ UNCHANGED <<text, tree, arg, heap, self, history>>

Next ==
    \/ DoDifferentiate
    \/ DoSimplify
    \/ DoSimplifyDerivative
    \/ DoEvaluate
    \/ DoStr
    \/ DoParseExpression

Spec == InitTree /\ [][Next]_vars

----------------------------------------------------------------------------
(* Parsing a token list                                                    *)

InitTokens ==
    /\ text = <<>>
    /\ tokens \in TokenLists(MaxShort, MaxOperands)
    /\ tree = None
    /\ call = "init"
    /\ arg = "-"
    /\ out = None
    /\ heap = <<>>
    /\ self = None
    /\ history = <<>>

\* Parser(tokens).parse(), parser.py:251-252
DoParse ==
    /\ call = "init"
    /\ out' = Parse(tokens)
    /\ call' = "parse"
    /\ UNCHANGED <<text, tokens, tree, arg, heap, self, history>>

NextParse == DoParse

SpecParse == InitTokens /\ [][NextParse]_vars

----------------------------------------------------------------------------
(* Tokenizing and parsing a string                                         *)

InitText ==
    /\ text \in Texts(MaxText)
    /\ tokens = <<>>
    /\ tree = None
    /\ call = "init"
    /\ arg = "-"
    /\ out = None
    /\ heap = <<>>
    /\ self = None
    /\ history = <<>>

\* tokenize(text), tokenizer.py:194-209
DoTokenize ==
    /\ call = "init"
    /\ out' = Tokenize(text)
    /\ call' = "tokenize"
    /\ UNCHANGED <<text, tokens, tree, arg, heap, self, history>>

NextText == DoTokenize \/ DoParseExpression

SpecText == InitText /\ [][NextText]_vars

----------------------------------------------------------------------------
(* Polynomials in one variable, as coefficient sequences <<c0, c1, ...>>:  *)
(* the mathematical reference for the derivative.                          *)

PCoef(p, i) == IF i \in 1 .. Len(p) THEN p[i] ELSE Whole(0)
PMax(a, b) == IF a > b THEN a ELSE b

PAdd(p, q) == [i \in 1 .. PMax(Len(p), Len(q)) |-> RAdd(PCoef(p, i), PCoef(q, i))]
PSub(p, q) == [i \in 1 .. PMax(Len(p), Len(q)) |-> RSub(PCoef(p, i), PCoef(q, i))]

RECURSIVE ConvSum(_, _, _, _)
ConvSum(p, q, k, i) ==
    IF i > Len(p) THEN Whole(0)
    ELSE RAdd(RMul(p[i], PCoef(q, k + 1 - i)), ConvSum(p, q, k, i + 1))

PMul(p, q) == [k \in 1 .. (Len(p) + Len(q) - 1) |-> ConvSum(p, q, k, 1)]

RECURSIVE PPow(_, _)
PPow(p, n) == IF n = 0 THEN <<Whole(1)>> ELSE PMul(p, PPow(p, n - 1))

\* d/dv of c0 + c1 v + c2 v^2 + ... is c1 + 2 c2 v + ...
PDeriv(p) ==
    IF Len(p) <= 1 THEN <<Whole(0)>>
    ELSE [i \in 1 .. (Len(p) - 1) |-> RMul(Whole(i), p[i + 1])]

RECURSIVE Horner(_, _, _)
Horner(p, a, i) ==
    IF i > Len(p) THEN Whole(0)
    ELSE RAdd(p[i], RMul(a, Horner(p, a, i + 1)))

PEval(p, a) == Horner(p, a, 1)

\* Trees of Numbers, Variables, + - * and ^ with a non-negative integer
\* literal exponent.
RECURSIVE IsPolynomial(_)
IsPolynomial(t) ==
    IF IsNumber(t) \/ IsVariable(t) THEN TRUE
    ELSE IF t.operator \in {"+", "-", "*"}
    THEN IsPolynomial(t.left) /\ IsPolynomial(t.right)
    ELSE /\ t.operator = "^"
         /\ IsNumber(t.right) /\ IsInt(t.right.value) /\ t.right.value.num >= 0
         /\ IsPolynomial(t.left)

\* The polynomial in v that t denotes when every other variable has its
\* value in b.
RECURSIVE Coeffs(_, _, _)
Coeffs(t, v, b) ==
    IF IsNumber(t) THEN <<t.value>>
    ELSE IF IsVariable(t)
    THEN IF t.name = v THEN <<Whole(0), Whole(1)>> ELSE <<b[t.name]>>
    ELSE IF t.operator = "+" THEN PAdd(Coeffs(t.left, v, b), Coeffs(t.right, v, b))
    ELSE IF t.operator = "-" THEN PSub(Coeffs(t.left, v, b), Coeffs(t.right, v, b))
    ELSE IF t.operator = "*" THEN PMul(Coeffs(t.left, v, b), Coeffs(t.right, v, b))
    ELSE PPow(Coeffs(t.left, v, b), t.right.value.num)

EnvInts == {-1, 0, 3, 5}
Bindings == [Names -> {Whole(i) : i \in EnvInts}]

----------------------------------------------------------------------------
(* Differentiation: C3 - C6                                                *)

DiffNode(t) == Differentiate(t, arg).node

\* C3: differentiate returns Number(0) for a Number, Number(1) for the
\* Variable differentiated by and Number(0) for any other Variable; for
\* f+g, f-g, f*g, f/g it returns exactly f'+g', f'-g', (f'*g)+(f*g') and
\* ((f'*g)-(f*g'))/(g^2), f' and g' being the derivatives of f and g,
\* with nothing simplified.
C3_DifferentiationRules ==
    call = "differentiate" =>
        /\ IsNumber(tree) => out = Ok(Lit(0))
        /\ IsVariable(tree) =>
              out = Ok(IF tree.name = arg THEN Lit(1) ELSE Lit(0))
        /\ (IsBinaryOp(tree) /\ tree.operator # "^" /\ out.st = "ok") =>
              LET f == tree.left
                  g == tree.right
                  df == DiffNode(f)
                  dg == DiffNode(g)
              IN  out.node =
                    CASE tree.operator = "+" -> BinaryOp(df, "+", dg)
                      [] tree.operator = "-" -> BinaryOp(df, "-", dg)
                      [] tree.operator = "*" ->
                            BinaryOp(BinaryOp(df, "*", g), "+",
                                     BinaryOp(f, "*", dg))
                      [] tree.operator = "/" ->
                            BinaryOp(BinaryOp(BinaryOp(df, "*", g), "-",
                                              BinaryOp(f, "*", dg)),
                                     "/", BinaryOp(g, "^", Lit(2)))

\* d/dx (x / y) = ((1 * y) - (x * 0)) / (y ^ 2)
C3_Witness ==
    /\ call = "differentiate"
    /\ tree = BinaryOp(X, "/", Y)
    /\ arg = "x"
    /\ out = Ok(BinaryOp(BinaryOp(BinaryOp(Lit(1), "*", Y), "-",
                                  BinaryOp(X, "*", Lit(0))),
                         "/", BinaryOp(Y, "^", Lit(2))))

IsPowerOfLiteral(t) ==
    IsBinaryOp(t) /\ t.operator = "^" /\ IsNumber(t.right)

\* C4: for every base f and Number literal n, differentiate(f^n, v)
\* returns d/dv(f) when n = 1, Number(0) when n = 0, and otherwise the
\* tree (n * f^(n-1)) * d/dv(f).
C4_PowerRule ==
    (call = "differentiate" /\ IsPowerOfLiteral(tree)) =>
        LET n == tree.right.value
            f == tree.left
        IN  IF IsOne(n) THEN out = Differentiate(f, arg)
            ELSE IF IsZero(n) THEN out = Ok(Lit(0))
            ELSE /\ out.st = Differentiate(f, arg).st
                 /\ out.st = "ok" =>
                      out.node =
                        BinaryOp(BinaryOp(Number(n), "*",
                                          BinaryOp(f, "^",
                                                   Number(RSub(n, Whole(1))))),
                                 "*", DiffNode(f))

C6_DerivativeValue ==
    (call = "differentiate" /\ IsPolynomial(tree)) =>
        /\ out.st = "ok"
        /\ \A b \in Bindings :
              Evaluate(out.node, b) =
                  Val(PEval(PDeriv(Coeffs(tree, arg, b)), b[arg]))
        /\ (tree = BinaryOp(BinaryOp(X, "+", Lit(1)), "*",
                            BinaryOp(X, "-", Lit(1))) /\ arg = "x") =>
              Evaluate(out.node, [x |-> Whole(5)]) = Val(Whole(10))

\* d/dx x^2 at x = 3 is 6
C6_Witness ==
    /\ call = "differentiate"
    /\ tree = BinaryOp(X, "^", Lit(2))
    /\ arg = "x"
    /\ out.st = "ok"
    /\ Evaluate(out.node, [x |-> Whole(3)]) = Val(Whole(6))

----------------------------------------------------------------------------
(* Simplification: C7 - C10                                                *)

\* The simplified children the rules of the root were applied to.
SimplifiedLeft == Simplify(tree.left)
SimplifiedRight == Simplify(tree.right)

AtRoot(operator) ==
    /\ call = "simplify"
    /\ IsBinaryOp(tree)
    /\ tree.operator = operator
    /\ SimplifiedLeft.st = "ok"
    /\ SimplifiedRight.st = "ok"

\* C7: simplify is total: it returns a tree for every well-formed tree,
\* constant subtrees such as 1/0 included, and never fails.
C7_SimplifyTotal ==
    call = "simplify" => out.st = "ok"

\* C8: simplify is idempotent: where simplify(t) succeeds,
\* simplify(simplify(t)) is structurally equal to simplify(t).
C8_SimplifyIdempotent ==
    (call = "simplify" /\ out.st = "ok") => Simplify(out.node) = out

\* the derivative (0 * x) + (2 * 1) of 2 * x simplifies to 2, and 2 to 2
C8_Witness ==
    /\ call = "simplify"
    /\ tree = BinaryOp(BinaryOp(Lit(0), "*", X), "+",
                       BinaryOp(Lit(2), "*", Lit(1)))
    /\ out = Ok(Lit(2))
    /\ Simplify(out.node) = out

\* C9: for a '-' node with simplified children l and r the result is l
\* when r is Number 0; a single Number l - r whenever l and r are both
\* Numbers; and the node 0 - x kept when l is Number 0 and x is symbolic.
C9_SubtractionRules ==
    AtRoot("-") =>
        LET l == SimplifiedLeft.node
            r == SimplifiedRight.node
        IN  /\ IsNum(r, 0) => out = Ok(l)
            /\ (IsNumber(l) /\ IsNumber(r)) =>
                  out = Ok(Number(RSub(l.value, r.value)))
            /\ (IsNum(l, 0) /\ ~IsNumber(r)) =>
                  out = Ok(BinaryOp(Lit(0), "-", r))

\* C10: with simplified children, x+0 and 0+x give x; x*0 and 0*x give
\* Number(0) for every x, before the rules x*1 and 1*x, which give x; two
\* Number operands fold to one Number holding their sum or product.
C10_AdditionMultiplicationRules ==
    /\ AtRoot("+") =>
        LET l == SimplifiedLeft.node
            r == SimplifiedRight.node
        IN  /\ IsNum(r, 0) => out = Ok(l)
            /\ IsNum(l, 0) => out = Ok(r)
            /\ (IsNumber(l) /\ IsNumber(r)) =>
                  out = Ok(Number(RAdd(l.value, r.value)))
    /\ AtRoot("*") =>
        LET l == SimplifiedLeft.node
            r == SimplifiedRight.node
        IN  /\ (IsNum(l, 0) \/ IsNum(r, 0)) => out = Ok(Lit(0))
            /\ (IsNum(r, 1) /\ ~IsNum(l, 0)) => out = Ok(l)
            /\ (IsNum(l, 1) /\ ~IsNum(r, 0)) => out = Ok(r)
            /\ (IsNumber(l) /\ IsNumber(r)) =>
                  out = Ok(Number(RMul(l.value, r.value)))

\* (y - y) * 0 is Number(0) although y - y stays symbolic
C10_Witness ==
    /\ call = "simplify"
    /\ tree = BinaryOp(BinaryOp(Y, "-", Y), "*", Lit(0))
    /\ SimplifiedLeft = Ok(BinaryOp(Y, "-", Y))
    /\ out = Ok(Lit(0))

----------------------------------------------------------------------------
(* Parsing: C1, C2                                                         *)

\* The token list without its EOF
Body == IF tokens # <<>> /\ tokens[Len(tokens)] = EOF
        THEN SubSeq(tokens, 1, Len(tokens) - 1) ELSE tokens

IsOperand(t) == t.type \in {"NUMBER", "VARIABLE"}
IsOperator(t, operators) == t.type = "OPERATOR" /\ t.value.str \in operators
LeafOf(t) == IF t.type = "NUMBER" THEN Number(t.value) ELSE Variable(t.value.str)

\* Open parentheses before position i
RECURSIVE DepthBefore(_, _)
DepthBefore(s, i) ==
    IF i = 1 THEN 0
    ELSE DepthBefore(s, i - 1)
         + (IF s[i - 1].type = "LPAREN" THEN 1
            ELSE IF s[i - 1].type = "RPAREN" THEN -1 ELSE 0)

\* Positions of the operators of a level outside every parenthesis
TopLevel(s, operators) ==
    {i \in 1 .. Len(s) : IsOperator(s[i], operators) /\ DepthBefore(s, i) = 0}

Last(S) == CHOOSE i \in S : \A j \in S : j <= i
First(S) == CHOOSE i \in S : \A j \in S : i <= j

\* The grouping that precedence and associativity give a token list, by
\* splitting it at its loosest operator: the last '+' or '-' outside
\* parentheses, else the last '*' or '/', else the first '^'.
RECURSIVE Grouping(_)
Grouping(s) ==
    LET add == TopLevel(s, {"+", "-"})
        mul == TopLevel(s, {"*", "/"})
        pow == TopLevel(s, {"^"})
        at == IF add # {} THEN Last(add)
              ELSE IF mul # {} THEN Last(mul)
              ELSE IF pow # {} THEN First(pow) ELSE 0
    IN  IF at # 0
        THEN LET l == Grouping(SubSeq(s, 1, at - 1))
                 r == Grouping(SubSeq(s, at + 1, Len(s)))
             IN  IF l.st = "ok" /\ r.st = "ok"
                 THEN Ok(BinaryOp(l.node, s[at].value.str, r.node))
                 ELSE Raise("ill-formed")
        ELSE IF Len(s) = 1 /\ IsOperand(s[1]) THEN Ok(LeafOf(s[1]))
        ELSE IF Len(s) >= 3 /\ s[1] = LParen /\ s[Len(s)] = RParen
        THEN Grouping(SubSeq(s, 2, Len(s) - 1))
        ELSE Raise("ill-formed")

\* operand (operator operand)* with every operator in the set
IsChain(s, operators) ==
    /\ Len(s) % 2 = 1
    /\ \A i \in 1 .. Len(s) :
          IF i % 2 = 1 THEN IsOperand(s[i]) ELSE IsOperator(s[i], operators)

NoBindings == [n \in {} |-> Whole(0)]

TwoTimesThreePlusFourTimesFive ==
    <<NumberToken(2), OperatorToken("*"), NumberToken(3), OperatorToken("+"),
      NumberToken(4), OperatorToken("*"), NumberToken(5), EOF>>

\* C1: on every well-formed token list parse returns the tree in which
\* '^' binds tighter than '*' and '/', those tighter than '+' and '-', and
\* operators of one level among '+','-' or among '*','/' group to the
\* left: a op1 b op2 c is BinaryOp(BinaryOp(a, op1, b), op2, c); so
\* 2*3 + 4*5 is (2*3) + (4*5) and evaluates to 26.
C1_PrecedenceAndLeftAssociativity ==
    call = "parse" =>
        /\ Grouping(Body).st = "ok" =>
              (out.st = "ok" /\ out.node = Grouping(Body).node)
        /\ \A level \in {{"+", "-"}, {"*", "/"}} :
              (Len(Body) = 5 /\ IsChain(Body, level)) =>
                 /\ out.st = "ok"
                 /\ out.node =
                      BinaryOp(BinaryOp(LeafOf(Body[1]), Body[2].value.str,
                                        LeafOf(Body[3])),
                               Body[4].value.str, LeafOf(Body[5]))
        /\ tokens = TwoTimesThreePlusFourTimesFive =>
              (out.st = "ok" /\ Evaluate(out.node, NoBindings) = Val(Whole(26)))

C1_Witness ==
    /\ call = "parse"
    /\ tokens = TwoTimesThreePlusFourTimesFive
    /\ out.st = "ok"
    /\ out.node = BinaryOp(BinaryOp(Lit(2), "*", Lit(3)), "+",
                           BinaryOp(Lit(4), "*", Lit(5)))
    /\ Evaluate(out.node, NoBindings) = Val(Whole(26))

\* a ^ (b ^ (c ^ ...)) of the operands of a chain
RECURSIVE RightNested(_)
RightNested(s) ==
    IF Len(s) = 1 THEN LeafOf(s[1])
    ELSE BinaryOp(LeafOf(s[1]), "^", RightNested(SubSeq(s, 3, Len(s))))

TwoToTheThreeToTheTwo ==
    <<NumberToken(2), OperatorToken("^"), NumberToken(3), OperatorToken("^"),
      NumberToken(2), EOF>>

\* C2: exponentiation is right-associative: a chain a ^ b ^ c (and any
\* longer one) parses to BinaryOp(a, '^', BinaryOp(b, '^', c)); 2^3^2 is
\* 2^(3^2) and evaluates to 512.
C2_PowerRightAssociative ==
    call = "parse" =>
        /\ (Len(Body) >= 3 /\ IsChain(Body, {"^"})) =>
              (out.st = "ok" /\ out.node = RightNested(Body))
        /\ tokens = TwoToTheThreeToTheTwo =>
              (out.st = "ok" /\ Evaluate(out.node, NoBindings) = Val(Whole(512)))

C2_Witness ==
    /\ call = "parse"
    /\ tokens = TwoToTheThreeToTheTwo
    /\ out.st = "ok"
    /\ out.node = BinaryOp(Lit(2), "^", BinaryOp(Lit(3), "^", Lit(2)))
    /\ Evaluate(out.node, NoBindings) = Val(Whole(512))

----------------------------------------------------------------------------
(* Simplification: C11 - C13                                               *)

\* C11: for a '/' node with simplified children l and r the result is l
\* when r is Number 1; otherwise Number(0) when l is Number 0, whatever r
\* is (Number 0 and symbolic r included); otherwise, when l and r are both
\* Numbers, one Number holding their quotient; otherwise the node l / r.
C11_DivisionRules ==
    AtRoot("/") =>
        LET l == SimplifiedLeft.node
            r == SimplifiedRight.node
        IN  IF IsNum(r, 1) THEN out = Ok(l)
            ELSE IF IsNum(l, 0) THEN out = Ok(Lit(0))
            ELSE IF IsNumber(l) /\ IsNumber(r)
            THEN /\ out.st = "ok"
                 /\ IsNumber(out.node)
                 /\ ~IsZero(r.value) =>
                       out.node.value = RDiv(l.value, r.value)
            ELSE out = Ok(BinaryOp(l, "/", r))

\* C12: for a '^' node with simplified children l and r the result is l
\* when r is Number 1 and Number(1) when r is Number 0, whatever l is
\* (Number 0 included), both before any folding; otherwise two Numbers
\* fold to one Number, their power.
C12_ExponentRules ==
    AtRoot("^") =>
        LET l == SimplifiedLeft.node
            r == SimplifiedRight.node
        IN  IF IsNum(r, 1) THEN out = Ok(l)
            ELSE IF IsNum(r, 0) THEN out = Ok(Lit(1))
            ELSE (IsNumber(l) /\ IsNumber(r)) =>
                 /\ out.st = "ok"
                 /\ IsNumber(out.node)
                 /\ (IsInt(r.value) /\ r.value.num > 0) =>
                       out.node.value = Rat(IPow(l.value.num, r.value.num),
                                            IPow(l.value.den, r.value.num))

\* Trees of Numbers, '+' and '*' only
RECURSIVE IsConstantSumProduct(_)
IsConstantSumProduct(t) ==
    IF IsNumber(t) THEN TRUE
    ELSE IF IsVariable(t) THEN FALSE
    ELSE /\ t.operator \in {"+", "*"}
         /\ IsConstantSumProduct(t.left)
         /\ IsConstantSumProduct(t.right)

RECURSIVE Height(_)
Height(t) ==
    IF IsBinaryOp(t) THEN 1 + PMax(Height(t.left), Height(t.right)) ELSE 0

----------------------------------------------------------------------------
(* Evaluation: C14                                                         *)

\* The names of the Variables of a tree
RECURSIVE VariablesOf(_)
VariablesOf(t) ==
    IF IsNumber(t) THEN {}
    ELSE IF IsVariable(t) THEN {t.name}
    ELSE VariablesOf(t.left) \cup VariablesOf(t.right)

\* The names the bindings of the evaluate call define
Bound == IF arg = None THEN {} ELSE DOMAIN arg

UndefinedVariable(name) == [st |-> "UndefinedVariable", name |-> name]

\* C14: evaluate fails with UndefinedVariable naming the variable on a
\* Variable whose name the bindings lack (or when the bindings are None),
\* and with DivisionByZero on a '/' node whose right operand evaluates to
\* 0; x/0 with x = 1 fails with DivisionByZero and y with {} fails with
\* UndefinedVariable for y.  Otherwise a Number gives its value, a bound
\* Variable its binding, and a + - * / node whose operands evaluate gives
\* their sum, difference, product or quotient; a failure of an operand
\* is the failure of the node.
C14_EvaluateErrors ==
    call = "evaluate" =>
        /\ IsNumber(tree) => out = Val(tree.value)
        /\ IsVariable(tree) =>
              out = IF tree.name \in Bound THEN Val(arg[tree.name])
                    ELSE UndefinedVariable(tree.name)
        /\ (IsBinaryOp(tree) /\ tree.operator \in {"+", "-", "*", "/"}) =>
              LET l == Evaluate(tree.left, arg)
                  r == Evaluate(tree.right, arg)
              IN  IF l.st = "ok" /\ r.st = "ok"
                  THEN out =
                         CASE tree.operator = "+" -> Val(RAdd(l.val, r.val))
                           [] tree.operator = "-" -> Val(RSub(l.val, r.val))
                           [] tree.operator = "*" -> Val(RMul(l.val, r.val))
                           [] tree.operator = "/" ->
                                IF r.val = Whole(0) THEN Raise("DivisionByZero")
                                ELSE Val(RDiv(l.val, r.val))
                  ELSE out.st # "ok" /\ out \in {l, r}
        /\ VariablesOf(tree) \ Bound # {} => out.st # "ok"
        /\ out.st = "UndefinedVariable" =>
              out.name \in VariablesOf(tree) \ Bound
        /\ (tree = BinaryOp(X, "/", Lit(0)) /\ arg = [x |-> Whole(1)]) =>
              out = Raise("DivisionByZero")
        /\ (tree = Y /\ arg = NoBindings) => out = UndefinedVariable("y")

\* x/0 with x = 1
C14_Witness ==
    /\ call = "evaluate"
    /\ tree = BinaryOp(X, "/", Lit(0))
    /\ arg = [x |-> Whole(1)]
    /\ out = Raise("DivisionByZero")

\* y with no bindings
C14_WitnessUndefined ==
    /\ call = "evaluate"
    /\ tree = Y
    /\ arg = NoBindings
    /\ out = UndefinedVariable("y")

----------------------------------------------------------------------------
(* Parsing a string: C15                                                   *)

Letters(s) == {i \in DOMAIN s : IsAlpha(s[i])}
VariableTokens(toks) == {i \in DOMAIN toks : toks[i].type = "VARIABLE"}

\* C15: parse returns a tree only if, after the top-level expression is
\* parsed, the cursor is exactly at the EOF token, and then the tree is
\* the grouping of all the tokens before EOF; any token left causes the
\* trailing-token error.  Adjacent letters are lexed as one Variable
\* token each and never merged or multiplied: "xy" lexes as Variable(x),
\* Variable(y), EOF, and parse_expression("xy") fails.
C15_EndOfParseCheck ==
    (call = "parse_expression" /\ Tokenize(text).st = "ok") =>
        LET top == ParseAddition(tokens, 0)
            eof == Len(tokens) - 1
        IN  /\ tokens = Tokenize(text).tokens
            /\ out.st = "ok" =>
                  /\ out.pos = eof
                  /\ tokens[out.pos + 1] = EOF
                  /\ Grouping(Body) = Ok(out.node)
            /\ top.st = "ok" =>
                  out = IF top.pos = eof THEN top
                        ELSE ParseError("Unexpected token", top.pos)
            /\ Cardinality(VariableTokens(tokens)) = Cardinality(Letters(text))
            /\ text = <<"x", "y">> =>
                  /\ tokens = <<VariableToken("x"), VariableToken("y"), EOF>>
                  /\ out.st = "ValueError"

\* parse_expression("xy") stops at the second Variable token
C15_Witness ==
    /\ call = "parse_expression"
    /\ text = <<"x", "y">>
    /\ tokens = <<VariableToken("x"), VariableToken("y"), EOF>>
    /\ out = ParseError("Unexpected token", 1)

----------------------------------------------------------------------------
(* Malformed token lists: C16                                              *)

\* A '(' after which the depth never comes back to what it was before it
HasUnclosedParen(s) ==
    \E i \in DOMAIN s :
        /\ s[i] = LParen
        /\ \A j \in (i + 1) .. (Len(s) + 1) :
              DepthBefore(s, j) > DepthBefore(s, i)

\* The positions where the grammar has a primary: the first, and the one
\* after each operator and each '('
PrimaryPositions(toks) ==
    {i \in DOMAIN toks :
        i = 1 \/ toks[i - 1].type \in {"OPERATOR", "LPAREN"}}

HasBadPrimary(toks) ==
    \E i \in PrimaryPositions(toks) :
        toks[i].type \notin {"NUMBER", "VARIABLE", "LPAREN"}

\* C16: parse fails with ValueError, and returns no tree, on the empty
\* token list and on the list holding only EOF, on a list with a '(' whose
\* ')' is missing ("(x + 1"), on a list where a primary position holds
\* anything but a Number, a Variable or '(' (an operator or EOF after an
\* operator included), and on every other list that is not an expression;
\* a failure carries no tree.
C16_MalformedInputFails ==
    call = "parse" =>
        /\ out.st \in {"ok", "ValueError"}
        /\ tokens \in {<<>>, <<EOF>>} => out.st = "ValueError"
        /\ HasUnclosedParen(Body) => out.st = "ValueError"
        /\ HasBadPrimary(tokens) => out.st = "ValueError"
        /\ Grouping(Body).st # "ok" => out.st = "ValueError"
        /\ out.st = "ValueError" => "node" \notin DOMAIN out
        /\ Body = UnclosedTokens =>
              out = ParseError("Expected ')' after expression", 4)

\* "(x + 1" fails at the EOF token, where ')' was expected
C16_Witness ==
    /\ call = "parse"
    /\ tokens = UnclosedTokens \o <<EOF>>
    /\ HasUnclosedParen(Body)
    /\ out = ParseError("Expected ')' after expression", 4)

\* "2 +" has EOF at a primary position
C16_WitnessPrimary ==
    /\ call = "parse"
    /\ tokens = <<NumberToken(2), OperatorToken("+"), EOF>>
    /\ HasBadPrimary(tokens)
    /\ out = ParseError("Unexpected end of input", 2)

----------------------------------------------------------------------------
(* Display and parse again: C17                                            *)

\* Trees of Numbers, Variables, '+', '-' and '*' only
RECURSIVE IsSumDifferenceProduct(_)
IsSumDifferenceProduct(t) ==
    IF IsNumber(t) \/ IsVariable(t) THEN TRUE
    ELSE /\ t.operator \in {"+", "-", "*"}
         /\ IsSumDifferenceProduct(t.left)
         /\ IsSumDifferenceProduct(t.right)

\* C17: for every tree t of Numbers, Variables, '+', '-' and '*',
\* parse_expression(str(t)) succeeds, and simplify of the tree it returns
\* is structurally equal to simplify(t).
C17_DisplayRoundTrip ==
    (call = "parse_expression" /\ tree # None
       /\ IsSumDifferenceProduct(tree)) =>
        /\ out.st = "ok"
        /\ Simplify(out.node) = Simplify(tree)

----------------------------------------------------------------------------
(* The tokenizer: C18 - C20                                                *)

EOFTokens(toks) == {i \in DOMAIN toks : toks[i].type = "EOF"}

\* C18: every successful tokenize returns a list whose last token is EOF
\* and that holds exactly one EOF; for the empty string and for a string
\* of whitespace only it returns exactly [EOF].
C18_EOFSentinel ==
    call = "tokenize" =>
        /\ out.st = "ok" =>
              /\ out.tokens # <<>>
              /\ out.tokens[Len(out.tokens)] = EOF
              /\ Cardinality(EOFTokens(out.tokens)) = 1
        /\ (\A i \in DOMAIN text : IsSpace(text[i])) =>
              out = [st |-> "ok", tokens |-> <<EOF>>]

\* two blanks
C18_Witness ==
    /\ call = "tokenize"
    /\ text = <<" ", " ">>
    /\ out = [st |-> "ok", tokens |-> <<EOF>>]

\* "2*x + 3"
C18_WitnessTokens ==
    /\ call = "tokenize"
    /\ text = <<"2", "*", "x", " ", "+", " ", "3">>
    /\ out = [st |-> "ok",
              tokens |-> <<NumberToken(2), OperatorToken("*"),
                           VariableToken("x"), OperatorToken("+"),
                           NumberToken(3), EOF>>]

IsValidChar(c) ==
    \/ IsSpace(c) \/ IsDigit(c) \/ c = "." \/ IsAlpha(c)
    \/ c \in OperatorChars \/ c \in {"(", ")"}

InvalidAt(s) == {i \in DOMAIN s : ~IsValidChar(s[i])}

\* C19: whenever the scan reaches a character that is not whitespace, a
\* digit, '.', a letter, an operator or a parenthesis (the first such
\* character, everything before it having been lexed), tokenize fails with
\* the error that reports this character and its offset in the string
\* given to tokenize, and returns no tokens.
C19_LexErrorReport ==
    (call = "tokenize" /\ InvalidAt(text) # {}) =>
        LET i == First(InvalidAt(text))
        IN  Tokenize(SubSeq(text, 1, i - 1)).st = "ok" =>
                out = InvalidCharacter(text[i], i - 1)

MinusTokens(toks) ==
    {i \in DOMAIN toks : toks[i] = OperatorToken("-")}

\* The '-' characters not immediately followed by a digit or '.'
LoneMinus(s) ==
    {i \in DOMAIN s :
        /\ s[i] = "-"
        /\ ~(i < Len(s) /\ (IsDigit(s[i + 1]) \/ s[i + 1] = "."))}

\* C20: a '-' immediately before a digit or '.' is lexed as part of one
\* negative Number token, every other '-' as the '-' Operator token:
\* "-2" lexes to a single Number of value -2 (and EOF).
C20_UnaryMinusLiteral ==
    (call = "tokenize" /\ out.st = "ok") =>
        /\ Cardinality(MinusTokens(out.tokens)) = Cardinality(LoneMinus(text))
        /\ text = <<"-", "2">> =>
              out.tokens = <<Token("NUMBER", Whole(-2)), EOF>>

----------------------------------------------------------------------------
(* Differentiation and simplification: C24 - C27                           *)

\* Whether the tree holds, anywhere, a '^' node whose right child is not
\* a Number
RECURSIVE HasNonLiteralExponent(_)
HasNonLiteralExponent(t) ==
    /\ IsBinaryOp(t)
    /\ \/ t.operator = "^" /\ ~IsNumber(t.right)
       \/ HasNonLiteralExponent(t.left)
       \/ HasNonLiteralExponent(t.right)

C25_SimplifyPreservesValue ==
    (call = "evaluate" /\ out.st = "ok") =>
        /\ Simplify(tree).st = "ok"
        /\ Evaluate(Simplify(tree).node, arg) = out

\* (x * 1) + 0 at x = 1 is 1, and so is its simplified form x
C25_Witness ==
    /\ call = "evaluate"
    /\ tree = BinaryOp(BinaryOp(X, "*", Lit(1)), "+", Lit(0))
    /\ arg = [x |-> Whole(1)]
    /\ out = Val(Whole(1))
    /\ Simplify(tree) = Ok(X)
    /\ Evaluate(X, arg) = out

\* Whether a rule for an identity or absorbing element applies to a node
IsRedex(t) ==
    /\ IsBinaryOp(t)
    /\ \/ t.operator = "+" /\ (IsNum(t.left, 0) \/ IsNum(t.right, 0))
       \/ t.operator = "-" /\ IsNum(t.right, 0)
       \/ t.operator = "*" /\ (IsNum(t.left, 0) \/ IsNum(t.right, 0)
                                \/ IsNum(t.left, 1) \/ IsNum(t.right, 1))
       \/ t.operator = "/" /\ (IsNum(t.left, 0) \/ IsNum(t.right, 1))
       \/ t.operator = "^" /\ (IsNum(t.right, 0) \/ IsNum(t.right, 1))

RECURSIVE HasRedex(_)
HasRedex(t) ==
    /\ IsBinaryOp(t)
    /\ (IsRedex(t) \/ HasRedex(t.left) \/ HasRedex(t.right))

\* C26: no BinaryOp node anywhere in simplify(t) has the shape x+0, 0+x,
\* x-0, x*0, 0*x, x*1, 1*x, x/1, 0/x, x^1 or x^0, 0 and 1 being Number
\* literals.
C26_NormalForm ==
    (call = "simplify" /\ out.st = "ok") => ~HasRedex(out.node)

\* (0 / x) + 0 becomes 0: both the node and its left operand had such a
\* shape
C26_Witness ==
    /\ call = "simplify"
    /\ tree = BinaryOp(BinaryOp(Lit(0), "/", X), "+", Lit(0))
    /\ HasRedex(tree)
    /\ out = Ok(Lit(0))
    /\ ~HasRedex(out.node)

\* C27: if v does not occur in t and differentiate(t, v) and simplify of
\* the derivative both succeed, the simplified derivative is Number(0).
C27_DerivativeOfConstant ==
    (call = "differentiate" /\ arg \notin VariablesOf(tree)
       /\ out.st = "ok" /\ Simplify(out.node).st = "ok") =>
        Simplify(out.node) = Ok(Lit(0))

\* d/dx (y / y) = ((0 * y) - (y * 0)) / (y ^ 2) simplifies to 0
C27_Witness ==
    /\ call = "differentiate"
    /\ tree = BinaryOp(Y, "/", Y)
    /\ arg = "x"
    /\ out = Ok(BinaryOp(BinaryOp(BinaryOp(Lit(0), "*", Y), "-",
                                  BinaryOp(Y, "*", Lit(0))),
                         "/", BinaryOp(Y, "^", Lit(2))))
    /\ Simplify(out.node) = Ok(Lit(0))

----------------------------------------------------------------------------
(* Node objects.  Python holds and passes references: heap[id] is the      *)
(* object with identity id, and a BinaryOp object holds the identities of  *)
(* its children.                                                           *)

MaxTail == 1     \* token lists have at most MaxTail tokens after an EOF in their middle

\* Node.__init__ (nodes.py:109-111, 148-150, 200-209): a new object, with
\* an identity no other object has
Alloc(h, obj) == [heap |-> Append(h, obj), node |-> Len(h) + 1]

\* What follows a call, given what the call returned or raised
Then(result, Rest(_)) == CHOOSE r \in {Rest(v) : v \in {result}} : TRUE

\* The object with identity id as an operand of a rule: its fields, and
\* its identity
At(h, id) == [k \in DOMAIN h[id] \cup {"id"} |->
                 IF k = "id" THEN id ELSE h[id][k]]

\* The constructor calls of an expression such as
\* BinaryOp(BinaryOp(left_diff, '*', self.right), '+', ...), nodes.py:271-275:
\* every Number(...) and BinaryOp(...) in it creates an object, its
\* arguments first, and an operand that is an existing object is referred to
RECURSIVE Store(_, _)
Store(h, e) ==
    IF "id" \in DOMAIN e THEN [heap |-> h, node |-> e.id]
    ELSE IF IsBinaryOp(e)
    THEN Then(Store(h, e.left), LAMBDA l :
         Then(Store(l.heap, e.right), LAMBDA r :
         Alloc(r.heap, BinaryOp(l.node, e.operator, r.node))))
    ELSE Alloc(h, e)

Returned(h, e) ==
    Then(Store(h, e), LAMBDA s :
         [st |-> "ok", node |-> s.node, heap |-> s.heap])
Raised(h, e) == [st |-> e.st, heap |-> h]

\* The tree an object is the root of
RECURSIVE TreeOf(_, _)
TreeOf(h, id) ==
    IF IsBinaryOp(h[id])
    THEN BinaryOp(TreeOf(h, h[id].left), h[id].operator,
                  TreeOf(h, h[id].right))
    ELSE h[id]

\* The objects of a tree, in the order a traversal meets them; an object
\* reachable along two paths is met twice
RECURSIVE Walk(_, _)
Walk(h, id) ==
    IF IsBinaryOp(h[id])
    THEN <<id>> \o Walk(h, h[id].left) \o Walk(h, h[id].right)
    ELSE <<id>>

NodesOf(h, id) == {Walk(h, id)[i] : i \in DOMAIN Walk(h, id)}

\* Node.differentiate on objects, nodes.py:121-128, 164-175, 237-312: the
\* rules get the objects self.left, self.right and the derivatives
RECURSIVE DifferentiateObj(_, _, _)
DifferentiateObj(h, id, variable) ==
    LET t == h[id] IN
    IF IsNumber(t) THEN Returned(h, NumberDifferentiate(t, variable).node)
    ELSE IF IsVariable(t)
    THEN Returned(h, VariableDifferentiate(t, variable).node)
    ELSE IF t.operator \in {"+", "-", "*", "/"}
    THEN Then(DifferentiateObj(h, t.left, variable), LAMBDA dl :
         IF dl.st # "ok" THEN dl ELSE
         Then(DifferentiateObj(dl.heap, t.right, variable), LAMBDA dr :
         IF dr.st # "ok" THEN dr ELSE
         LET left == At(dr.heap, t.left)
             right == At(dr.heap, t.right)
             left_diff == At(dr.heap, dl.node)
             right_diff == At(dr.heap, dr.node)
         IN  IF t.operator \in {"+", "-"}
             THEN Returned(dr.heap, SumRule(left_diff, t.operator, right_diff))
             ELSE IF t.operator = "*"
             THEN Returned(dr.heap,
                           ProductRule(left, right, left_diff, right_diff))
             ELSE Returned(dr.heap,
                           QuotientRule(left, right, left_diff, right_diff))))
    ELSE IF t.operator = "^"
    THEN IF IsNumber(h[t.right])
         THEN Then(DifferentiateObj(h, t.left, variable), LAMBDA f_prime :
              IF f_prime.st # "ok" THEN f_prime
              ELSE Returned(f_prime.heap,
                            PowerRule(At(f_prime.heap, t.left),
                                      h[t.right].value,
                                      At(f_prime.heap, f_prime.node))))
         ELSE Raised(h, UnsupportedExponent)
    ELSE Raised(h, Raise("ValueError"))

RECURSIVE SimplifyObj(_, _)

\* simplify storing the simplified children in the node it was given
SimplifyInPlace(h, id) ==
    LET node == h[id] IN
    IF IsNumber(node) \/ IsVariable(node)
    THEN [st |-> "ok", node |-> id, heap |-> h]
    ELSE Then(SimplifyObj(h, node.left), LAMBDA left_simplified :
         IF left_simplified.st # "ok" THEN left_simplified ELSE
         Then(SimplifyObj(left_simplified.heap, node.right),
              LAMBDA right_simplified :
         IF right_simplified.st # "ok" THEN right_simplified ELSE
         LET h2 == [right_simplified.heap EXCEPT
                       ![id].left = left_simplified.node,
                       ![id].right = right_simplified.node]
         IN  Then(SimplifyBinaryOp(At(h2, left_simplified.node),
                                   node.operator,
                                   At(h2, right_simplified.node)), LAMBDA r :
             IF r.st = "ok" THEN Returned(h2, r.node) ELSE Raised(h2, r))))

\* Simplifier.simplify on objects, simplifier.py:44-72: a Number or a
\* Variable is returned itself, and a rule returns one of its operands or
\* a new object
SimplifyObj(h, id) ==
    LET node == h[id] IN
    IF IsNumber(node) \/ IsVariable(node)
    THEN [st |-> "ok", node |-> id, heap |-> h]
    ELSE Then(SimplifyObj(h, node.left), LAMBDA left_simplified :
         IF left_simplified.st # "ok" THEN left_simplified ELSE
         Then(SimplifyObj(left_simplified.heap, node.right),
              LAMBDA right_simplified :
         IF right_simplified.st # "ok" THEN right_simplified ELSE
         LET h2 == right_simplified.heap
         IN  Then(SimplifyBinaryOp(At(h2, left_simplified.node),
                                   node.operator,
                                   At(h2, right_simplified.node)), LAMBDA r :
             IF r.st = "ok" THEN Returned(h2, r.node) ELSE Raised(h2, r))))

----------------------------------------------------------------------------
(* The Parser object: its fields self.tokens and self.current_pos, the     *)
(* objects it creates, and the steps it took.                              *)

\* Parser.__init__, parser.py:46-55
NewParser(toks, h) ==
    [self |-> [tokens |-> toks, current_pos |-> 0],
     heap |-> h,
     history |-> <<[op |-> "__init__", pos |-> 0]>>]

\* A step of the parser, recorded with the cursor it leaves
Step(m, op) ==
    [m EXCEPT !.history = Append(@, [op |-> op, pos |-> m.self.current_pos])]

\* A call of _match, recorded with what it returned and the cursor it
\* leaves
MatchStep(m, matched) ==
    [matched |-> matched,
     m |-> [m EXCEPT !.history =
               Append(@, [op |-> "_match", pos |-> m.self.current_pos,
                          returned |-> matched])]]

\* self.current_pos += 1, parser.py:182 and 186
Advance(fields) == [fields EXCEPT !.current_pos = @ + 1]

\* Parser._previous, parser.py:205-217
Previous(m) == m.self.tokens[m.self.current_pos]

\* Parser._is_at_end, parser.py:219-227
IsAtEndObj(m) == IsAtEnd(m.self.tokens, m.self.current_pos)

\* _match moving to the next token whether or not the current one matches
MatchObjMoving(m, token_type, value) ==
    IF IsAtEndObj(m) THEN MatchStep(m, FALSE)
    ELSE MatchStep([m EXCEPT !.self = Advance(@)],
                   Match(m.self.tokens, m.self.current_pos, token_type, value))

\* Parser._match, parser.py:161-189
MatchObj(m, token_type, value) ==
    IF Match(m.self.tokens, m.self.current_pos, token_type, value)
    THEN MatchStep([m EXCEPT !.self = Advance(@)], TRUE)
    ELSE MatchStep(m, FALSE)

\* a or b, where b is called when a returned False: parser.py:94 and 112
OrElse(a, b) == IF a.matched THEN a ELSE b

ParsedObj(node, m) == [st |-> "ok", node |-> node, m |-> m]
ParseErrorObj(reason, m) ==
    [st |-> "ValueError", reason |-> reason, pos |-> m.self.current_pos,
     m |-> m]

\* Number(...), Variable(...) or BinaryOp(...) in the parser
Created(obj, m) ==
    LET a == Alloc(m.heap, obj)
    IN  ParsedObj(a.node, [m EXCEPT !.heap = a.heap])

RECURSIVE ParseAdditionObj(_)
RECURSIVE AdditionLoopObj(_, _)
RECURSIVE ParseMultiplicationObj(_)
RECURSIVE MultiplicationLoopObj(_, _)
RECURSIVE ParseExponentiationObj(_)
RECURSIVE ParsePrimaryObj(_)

\* Parser._parse_primary, parser.py:136-159
ParsePrimaryObj(m0) ==
    Then(Step(m0, "_parse_primary"), LAMBDA m :
    LET number == MatchObj(m, "NUMBER", NoValue)
        variable == MatchObj(number.m, "VARIABLE", NoValue)
        lparen == MatchObj(variable.m, "LPAREN", NoValue)
    IN  IF number.matched
        THEN Created(Number(Previous(number.m).value), number.m)
        ELSE IF variable.matched
        THEN Created(Variable(Previous(variable.m).value.str), variable.m)
        ELSE IF lparen.matched
        THEN Then(ParseAdditionObj(lparen.m), LAMBDA expr :
             IF expr.st # "ok" THEN expr
             ELSE LET rparen == MatchObj(expr.m, "RPAREN", NoValue) IN
                  IF rparen.matched THEN ParsedObj(expr.node, rparen.m)
                  ELSE ParseErrorObj("Expected ')' after expression",
                                     rparen.m))
        ELSE IF IsAtEndObj(lparen.m)
        THEN ParseErrorObj("Unexpected end of input", lparen.m)
        ELSE ParseErrorObj("Expected number, variable, or '('", lparen.m))

\* Parser._parse_exponentiation, parser.py:119-134
ParseExponentiationObj(m0) ==
    Then(ParsePrimaryObj(Step(m0, "_parse_exponentiation")), LAMBDA left :
    IF left.st # "ok" THEN left
    ELSE LET caret == MatchObj(left.m, "OPERATOR", Str("^")) IN
         IF caret.matched
         THEN Then(ParseExponentiationObj(caret.m), LAMBDA right :
              IF right.st # "ok" THEN right
              ELSE Created(BinaryOp(left.node, "^", right.node), right.m))
         ELSE ParsedObj(left.node, caret.m))

\* The while loop of _parse_multiplication, parser.py:112-117
MultiplicationLoopObj(left, m) ==
    LET first == MatchObj(m, "OPERATOR", Str("*"))
        condition == OrElse(first, MatchObj(first.m, "OPERATOR", Str("/")))
    IN
    IF condition.matched
    THEN Then(Step(condition.m, "_parse_multiplication while"), LAMBDA body :
         Then(ParseExponentiationObj(body), LAMBDA right :
         IF right.st # "ok" THEN right
         ELSE Then(Created(BinaryOp(left, Previous(body).value.str,
                                    right.node), right.m), LAMBDA node :
              MultiplicationLoopObj(node.node, node.m))))
    ELSE ParsedObj(left, condition.m)

\* Parser._parse_multiplication, parser.py:101-117
ParseMultiplicationObj(m0) ==
    Then(ParseExponentiationObj(Step(m0, "_parse_multiplication")), LAMBDA left :
    IF left.st # "ok" THEN left
    ELSE MultiplicationLoopObj(left.node, left.m))

\* The while loop of _parse_addition, parser.py:94-99
AdditionLoopObj(left, m) ==
    LET first == MatchObj(m, "OPERATOR", Str("+"))
        condition == OrElse(first, MatchObj(first.m, "OPERATOR", Str("-")))
    IN
    IF condition.matched
    THEN Then(Step(condition.m, "_parse_addition while"), LAMBDA body :
         Then(ParseMultiplicationObj(body), LAMBDA right :
         IF right.st # "ok" THEN right
         ELSE Then(Created(BinaryOp(left, Previous(body).value.str,
                                    right.node), right.m), LAMBDA node :
              AdditionLoopObj(node.node, node.m))))
    ELSE ParsedObj(left, condition.m)

\* Parser._parse_addition, parser.py:83-99
ParseAdditionObj(m0) ==
    Then(ParseMultiplicationObj(Step(m0, "_parse_addition")), LAMBDA left :
    IF left.st # "ok" THEN left
    ELSE AdditionLoopObj(left.node, left.m))

\* Parser.parse, parser.py:57-81
ParseObj(m0) ==
    IF m0.self.tokens = <<>> THEN ParseErrorObj("No tokens to parse", m0)
    ELSE Then(ParseAdditionObj(m0), LAMBDA result :
         IF result.st # "ok" THEN result
         ELSE IF ~IsAtEndObj(result.m)
         THEN ParseErrorObj("Unexpected token", result.m)
         ELSE result)

----------------------------------------------------------------------------
(* Parsing a token list into node objects and operating on them            *)

\* What tokenize returns, and lists a Parser may also be given: without
\* an EOF token, or with tokens after one
ParserTokenLists(m, n, k) ==
    TokenLists(m, n)
    \cup ShortLists(m - 2)
    \cup {q \o <<EOF>> \o r : q \in ShortLists(m - 2),
                              r \in ShortLists(k) \ {<<>>}}

\* A variable of the caller holding a reference to an object
Ref(id) == [ref |-> id]

InitObjects ==
    /\ text = <<>>
    /\ tokens \in ParserTokenLists(MaxShort, MaxOperands - 1, MaxTail)
    /\ tree = None
    /\ call = "init"
    /\ arg = "-"
    /\ out = None
    /\ heap = <<>>
    /\ self = None
    /\ history = <<>>

\* tree = Parser(tokens).parse(), parser.py:251-252 and main.py:68
DoParseObj ==
    /\ call = "init"
    /\ \E result \in {ParseObj(NewParser(tokens, heap))} :
        /\ heap' = result.m.heap
        /\ self' = result.m.self
        /\ history' = result.m.history
        /\ out' = IF result.st = "ok" THEN Ok(result.node)
                  ELSE ParseError(result.reason, result.pos)
        /\ tree' = IF result.st = "ok" THEN Ref(result.node) ELSE None
    /\ call' = "parse"
    /\ UNCHANGED <<text, tokens, arg>>

\* An operation is applied to the parsed tree, also after the tree was
\* displayed
HasTree == call \in {"parse", "str"} /\ tree # None

\* tree.differentiate(variable), main.py:71
DoDifferentiateObj ==
    /\ HasTree
    /\ \E variable \in Names :
        \E result \in {DifferentiateObj(heap, tree.ref, variable)} :
        /\ arg' = variable
        /\ heap' = result.heap
        /\ out' = IF result.st = "ok" THEN Ok(result.node)
                  ELSE Raise(result.st)
    /\ call' = "differentiate"
    /\ UNCHANGED <<text, tokens, tree, self, history>>

\* simplify_expression(tree), simplifier.py:158-168
DoSimplifyObj ==
    /\ HasTree
    /\ Simplify(TreeOf(heap, tree.ref)).st # "inexact"
    /\ \E result \in {SimplifyObj(heap, tree.ref)} :
        /\ heap' = result.heap
        /\ out' = IF result.st = "ok" THEN Ok(result.node)
                  ELSE Raise(result.st)
    /\ call' = "simplify"
    /\ UNCHANGED <<text, tokens, tree, arg, self, history>>

\* simplify_expression(derivative), main.py:74
DoSimplifyDerivativeObj ==
    /\ call = "differentiate"
    /\ out.st = "ok"
    /\ Simplify(TreeOf(heap, out.node)).st # "inexact"
    /\ \E result \in {SimplifyObj(heap, out.node)} :
        /\ heap' = result.heap
        /\ out' = IF result.st = "ok" THEN Ok(result.node)
                  ELSE Raise(result.st)
    /\ tree' = Ref(out.node)
    /\ call' = "simplify"
    /\ UNCHANGED <<text, tokens, arg, self, history>>

\* tree.evaluate(variables), main.py:96: the nodes are read
DoEvaluateObj ==
    /\ HasTree
    /\ \E variables \in EvalBindings :
        /\ Evaluate(TreeOf(heap, tree.ref), variables).st # "inexact"
        /\ arg' = variables
        /\ out' = Evaluate(TreeOf(heap, tree.ref), variables)
    /\ call' = "evaluate"
    /\ UNCHANGED <<text, tokens, tree, heap, self, history>>

\* str(tree), nodes.py:130-132, 177-179, 314-332: the nodes are read.  The
\* Numbers of a parsed tree are floats (tokenizer.py:150).
DoStrObj ==
    /\ HasTree
    /\ AllWhole(TreeOf(heap, tree.ref))
    /\ arg' = "float"
    /\ text' = NodeStr(TreeOf(heap, tree.ref), "float")
    /\ out' = None
    /\ call' = "str"
    /\ UNCHANGED <<tokens, tree, heap, self, history>>

NextObjects ==
    \/ DoParseObj
    \/ DoDifferentiateObj
    \/ DoSimplifyObj
    \/ DoSimplifyDerivativeObj
    \/ DoEvaluateObj
    \/ DoStrObj

SpecObjects == InitObjects /\ [][NextObjects]_vars

\* The objects are the trees of the operations on values
ObjectsAgree ==
    /\ call = "parse" =>
          /\ out.st = Parse(tokens).st
          /\ out.st = "ok" => TreeOf(heap, out.node) = Parse(tokens).node
          /\ out.st # "ok" => out = Parse(tokens)
          /\ self.current_pos = Parse(tokens).pos
    /\ call = "differentiate" =>
          /\ out.st = Differentiate(TreeOf(heap, tree.ref), arg).st
          /\ out.st = "ok" =>
                TreeOf(heap, out.node)
                    = Differentiate(TreeOf(heap, tree.ref), arg).node
    /\ call = "simplify" =>
          /\ out.st = Simplify(TreeOf(heap, tree.ref)).st
          /\ out.st = "ok" =>
                TreeOf(heap, out.node) = Simplify(TreeOf(heap, tree.ref)).node

----------------------------------------------------------------------------
(* Node objects and the parser's cursor: C21, C22, C28                     *)

\* The operations that take a tree
TreeOperations == {"differentiate", "simplify", "evaluate", "str"}

\* C21: differentiate, simplify, evaluate and str never mutate their input:
\* when the operation has returned or failed, every node object that
\* existed before the call (the nodes of the tree given to it among them)
\* is still there with the same variant, operator, value or name and
\* children, so that the tree reads the same to the next operation.
C21_InputsNotMutated ==
    [][call' \in TreeOperations =>
          /\ \A id \in DOMAIN heap :
                id \in DOMAIN heap' /\ heap'[id] = heap[id]
          /\ TreeOf(heap', tree.ref) = TreeOf(heap, tree.ref)
          /\ (call = "differentiate" /\ out.st = "ok") =>
                TreeOf(heap', out.node) = TreeOf(heap, out.node)]_vars

\* (2 + 2) * x simplified into a new tree 4 * x, the parsed tree as it was
C21_Witness ==
    /\ call = "simplify"
    /\ tokens = <<LParen, NumberToken(2), OperatorToken("+"), NumberToken(2),
                  RParen, OperatorToken("*"), VariableToken("x"), EOF>>
    /\ out.st = "ok"
    /\ out.node > tree.ref
    /\ TreeOf(heap, tree.ref) = Parse(tokens).node
    /\ TreeOf(heap, out.node) = BinaryOp(Lit(4), "*", X)

\* No object of the tree is met twice from its root
NoSharing(h, id) ==
    \A i, j \in DOMAIN Walk(h, id) :
        i # j => Walk(h, id)[i] # Walk(h, id)[j]

\* C22: in every tree returned by parse, differentiate or simplify no node
\* object is reachable along two different paths, and the tree returned by
\* differentiate shares no node object with the tree it was given.
C22_NoSharing ==
    (call \in {"parse", "differentiate", "simplify"} /\ out.st = "ok") =>
        /\ NoSharing(heap, out.node)
        /\ call = "differentiate" =>
              NodesOf(heap, out.node) \cap NodesOf(heap, tree.ref) = {}

\* The position of the first EOF token, else the length of the list
FirstEOF(toks) ==
    IF EOFTokens(toks) = {} THEN Len(toks) ELSE First(EOFTokens(toks)) - 1

\* C28: during parse over a token list current_pos never decreases, moves
\* only in a successful _match and then by exactly one, never moves past
\* the first EOF token nor past the end of the list, and each iteration of
\* a loop and each call of a parsing method starts further in the list
\* than the one before it (a token was consumed in between); parse ends
\* with a tree or with a ValueError.
C28_CursorDiscipline ==
    call = "parse" =>
        /\ out.st \in {"ok", "ValueError"}
        /\ history[1] = [op |-> "__init__", pos |-> 0]
        /\ \A i \in 1 .. Len(history) - 1 :
              IF history[i + 1].op = "_match" /\ history[i + 1].returned
              THEN history[i + 1].pos = history[i].pos + 1
              ELSE history[i + 1].pos = history[i].pos
        /\ \A i \in DOMAIN history :
              history[i].pos <= FirstEOF(tokens)
        /\ \A i, j \in DOMAIN history :
              (i < j /\ history[i].op = history[j].op
                     /\ history[i].op # "_match") =>
                  history[i].pos < history[j].pos
        /\ self.current_pos = history[Len(history)].pos

\* ( x + 1 ) ^ 2: seven tokens consumed, the cursor left on EOF
C28_Witness ==
    /\ call = "parse"
    /\ tokens = <<LParen, VariableToken("x"), OperatorToken("+"),
                  NumberToken(1), RParen, OperatorToken("^"), NumberToken(2),
                  EOF>>
    /\ out.st = "ok"
    /\ self.current_pos = 7
    /\ Len(SelectSeq(history,
                     LAMBDA e : e.op = "_match" /\ e.returned)) = 7
    /\ Len(SelectSeq(history, LAMBDA e : e.op = "_parse_addition")) = 2

\* 2 EOF x: the cursor stays on the EOF in the middle of the list
C28_WitnessEOF ==
    /\ call = "parse"
    /\ tokens = <<NumberToken(2), EOF, VariableToken("x")>>
    /\ out.st = "ok"
    /\ self.current_pos = 1

----------------------------------------------------------------------------
(* The Tokenizer object: its fields self.text, self.current_pos and        *)
(* self.tokens, a reference to a list object of the heap                   *)

MaxCalls == 3    \* tokenize is called at most MaxCalls times on the instance

\* Tokenizer.__init__, tokenizer.py:65-69
NewTokenizer ==
    [heap |-> <<<<>>>>,
     self |-> [tokens |-> 1, current_pos |-> 0, text |-> <<>>]]

\* The list the instance holds emptied, and kept
ClearTokens(k) == [k EXCEPT !.heap[k.self.tokens] = <<>>]

\* self.tokens = [], tokenizer.py:90: a new list object
ResetTokens(k) ==
    [heap |-> Append(k.heap, <<>>),
     self |-> [k.self EXCEPT !.tokens = Len(k.heap) + 1]]

\* self.tokens.append(token), tokenizer.py:109, 113, 120, 152, 169, 190
AppendToken(k, token) == [k EXCEPT !.heap[k.self.tokens] = Append(@, token)]

\* The branches of the loop body, tokenizer.py:98-117, at a character that
\* is not whitespace
LexOne(s, current_pos) ==
    LET char == s[current_pos + 1]
    IN  IF StartsNumber(s, current_pos) THEN ParseNumber(s, current_pos)
        ELSE IF IsAlpha(char) THEN ParseVariable(s, current_pos)
        ELSE IF char \in OperatorChars THEN ParseOperator(s, current_pos)
        ELSE IF char = "(" THEN Lexed(LParen, current_pos + 1)
        ELSE IF char = ")" THEN Lexed(RParen, current_pos + 1)
        ELSE InvalidCharacter(char, current_pos)

\* Where an exception leaves self.current_pos: _parse_number has moved it
\* over the digits and points (tokenizer.py:144-147) before float() fails
AfterError(error, current_pos) ==
    IF error.st = "ValueError" /\ error.reason = "Invalid number"
    THEN error.pos + Len(error.what)
    ELSE current_pos

\* The while loop of tokenize, tokenizer.py:92-117, on the instance
RECURSIVE ScanObj(_)
ScanObj(k) ==
    LET s == k.self.text
        current_pos == k.self.current_pos
    IN  IF current_pos >= Len(s) THEN [st |-> "ok", k |-> k]
        ELSE IF IsSpace(s[current_pos + 1])
        THEN ScanObj([k EXCEPT !.self.current_pos = @ + 1])
        ELSE Then(LexOne(s, current_pos), LAMBDA step :
             IF step.st = "ok"
             THEN ScanObj(AppendToken(
                      [k EXCEPT !.self.current_pos = step.pos], step.token))
             ELSE [st |-> step.st, error |-> step,
                   k |-> [k EXCEPT !.self.current_pos =
                             AfterError(step, current_pos)]])

\* Tokenizer.tokenize, tokenizer.py:71-121: the list object it returns is
\* the one the instance holds
TokenizeObj(k, s) ==
    Then(ScanObj(ResetTokens([k EXCEPT !.self.text = Strip(s),
                                       !.self.current_pos = 0])),
         LAMBDA scanned :
         IF scanned.st # "ok" THEN scanned
         ELSE [st |-> "ok", ref |-> scanned.k.self.tokens,
               k |-> AppendToken(scanned.k, EOF)])

\* The strings given to the instance: the examples, the empty string and
\* a single letter
TokenizerTexts == ExampleTexts \cup {<<>>, <<"x">>}

InitTokenizer ==
    /\ text = <<>>
    /\ tokens = <<>>
    /\ tree = None
    /\ call = "init"
    /\ arg = "-"
    /\ out = None
    /\ heap = NewTokenizer.heap
    /\ self = NewTokenizer.self
    /\ history = <<>>

\* tokenizer.tokenize(text) on the one instance, tokenizer.py:71-121
DoTokenizeObj ==
    /\ Len(history) < MaxCalls
    /\ \E s \in TokenizerTexts :
        \E result \in {TokenizeObj([heap |-> heap, self |-> self], s)} :
            /\ text' = s
            /\ heap' = result.k.heap
            /\ self' = result.k.self
            /\ out' = IF result.st = "ok"
                      THEN [st |-> "ok", ref |-> result.ref]
                      ELSE result.error
            /\ history' = Append(history, [text |-> s, out |-> out'])
    /\ call' = "tokenize"
    /\ UNCHANGED <<tokens, tree, arg>>

NextTokenizer == DoTokenizeObj

SpecTokenizer == InitTokenizer /\ [][NextTokenizer]_vars

\* C23: for any sequence of tokenize calls on one Tokenizer instance,
\* failed calls among them, what each call returned or raised is what
\* tokenize gives for that call's text alone, and the token list an earlier
\* call returned still holds those tokens after the later calls.
C23_TokenizePure ==
    \A i \in DOMAIN history :
        LET c == history[i] IN
        /\ c.out.st = Tokenize(c.text).st
        /\ c.out.st = "ok" => heap[c.out.ref] = Tokenize(c.text).tokens
        /\ c.out.st # "ok" => c.out = Tokenize(c.text)

\* "x - 2", then "2 & 3" which fails after one token, then "xy": the first
\* list is as it was returned
C23_Witness ==
    /\ Len(history) = 3
    /\ history[1].text = <<"x", " ", "-", " ", "2">>
    /\ history[2].text = <<"2", " ", "&", " ", "3">>
    /\ history[3].text = <<"x", "y">>
    /\ history[2].out = InvalidCharacter("&", 2)
    /\ history[3].out.st = "ok"
    /\ history[1].out.ref # history[3].out.ref
    /\ heap[history[1].out.ref]
           = <<VariableToken("x"), OperatorToken("-"), NumberToken(2), EOF>>
    /\ heap[history[3].out.ref]
           = <<VariableToken("x"), VariableToken("y"), EOF>>

----------------------------------------------------------------------------
(* The Calculator object, main.py:37-130: self.variables refers to a dict  *)
(* object; heap holds the dict objects, history the references that        *)
(* get_variables returned to the caller.                                   *)

MaxReturned == 1

\* Expressions that evaluate, that divide by zero, that cannot be
\* differentiated, and that do not parse
CalcTexts ==
    { <<"x">>,
      <<"x", "/", "y">>,
      <<"x", "^", "y">>,
      <<"(", "x", " ", "+", " ", "1">> }

\* d[name] = value
SetItem(d, name, value) ==
    [n \in DOMAIN d \cup {name} |-> IF n = name THEN value ELSE d[n]]

\* The dict itself in place of a copy of it
AliasDict(h, id) == [heap |-> h, node |-> id]

\* self.variables.copy(), main.py:106: a new dict object with the same items
CopyDict(h, id) == Alloc(h, h[id])

\* a or b of Python, main.py:96: a unless it is None or an empty dict
FirstTruthy(a, b) == IF a = None \/ DOMAIN a = {} THEN b ELSE a

\* raise ValueError(f"Error ... expression '{expression}': {e}"),
\* main.py:77-78, 97-98, 129-130
CalcError(what, expression, e) ==
    [st |-> "ValueError", reason |-> what, expression |-> expression,
     cause |-> e]

\* In the operators below, parsed is what parse_expression(expression)
\* returned or raised, the first statement of the try block.

\* The try block of evaluate_expression, main.py:94-98, with the mapping
\* that tree.evaluate is given
EvaluateAgainst(expression, parsed, bindings) ==
    IF parsed.st # "ok"
    THEN CalcError("Error evaluating expression", expression, parsed)
    ELSE Then(Evaluate(parsed.node, bindings), LAMBDA result :
        IF result.st # "ok"
        THEN CalcError("Error evaluating expression", expression, result)
        ELSE result)

\* Calculator.evaluate_expression, main.py:80-98
EvaluateExpression(stored, expression, parsed, variables) ==
    EvaluateAgainst(expression, parsed, FirstTruthy(variables, stored))

\* Calculator.parse_and_differentiate, main.py:52-78. The Numbers of a
\* simplified derivative of an expression without literals are ints.
ParseAndDifferentiate(expression, parsed, variable) ==
    IF parsed.st # "ok"
    THEN CalcError("Error processing expression", expression, parsed)
    ELSE Then(Differentiate(parsed.node, variable), LAMBDA derivative :
        IF derivative.st # "ok"
        THEN CalcError("Error processing expression", expression, derivative)
        ELSE Then(Simplify(derivative.node), LAMBDA simplified :
            IF simplified.st # "ok"
            THEN CalcError("Error processing expression", expression,
                           simplified)
            ELSE [st |-> "ok", str |-> NodeStr(simplified.node, "int")]))

\* Calculator.visualize_expression, main.py:112-130. visualize_tree reads
\* the tree and returns its drawing in the style; the drawing is kept as the
\* tree and the style it is made from.
VisualizeExpression(expression, parsed, style) ==
    IF parsed.st # "ok"
    THEN CalcError("Error visualizing expression", expression, parsed)
    ELSE [st |-> "ok", drawing |-> [node |-> parsed.node, style |-> style]]

\* Calculator(), main.py:48-50
InitCalc ==
    /\ text = <<>>
    /\ tokens = <<>>
    /\ tree = None
    /\ call = "__init__"
    /\ arg = None
    /\ out = None
    /\ heap = Alloc(<<>>, NoBindings).heap
    /\ self = [variables |-> Alloc(<<>>, NoBindings).node]
    /\ history = <<>>

\* Calculator.set_variable, main.py:100-102
DoSetVariable ==
    /\ \E name \in Names, value \in EvalValues :
        /\ arg' = [name |-> name, value |-> value]
        /\ heap' = [heap EXCEPT ![self.variables] = SetItem(@, name, value)]
    /\ call' = "set_variable"
    /\ out' = None
    /\ UNCHANGED <<text, tokens, tree, self, history>>

\* Calculator.get_variables, main.py:104-106
DoGetVariables ==
    /\ Len(history) < MaxReturned
    /\ \E result \in {CopyDict(heap, self.variables)} :
        /\ heap' = result.heap
        /\ out' = [st |-> "ok", ref |-> result.node]
        /\ history' = Append(history, result.node)
    /\ call' = "get_variables"
    /\ arg' = None
    /\ UNCHANGED <<text, tokens, tree, self>>

\* The caller of get_variables writes to the mapping it was given:
\* d[name] = value, or d.clear()
DoWriteReturned ==
    /\ \E i \in DOMAIN history :
        \/ \E name \in Names, value \in EvalValues :
            /\ arg' = [ref |-> history[i], name |-> name, value |-> value]
            /\ heap' = [heap EXCEPT ![history[i]] = SetItem(@, name, value)]
        \/ /\ arg' = [ref |-> history[i]]
           /\ heap' = [heap EXCEPT ![history[i]] = NoBindings]
    /\ call' = "write returned mapping"
    /\ out' = None
    /\ UNCHANGED <<text, tokens, tree, self, history>>

\* Calculator.clear_variables, main.py:108-110
DoClearVariables ==
    /\ heap' = [heap EXCEPT ![self.variables] = NoBindings]
    /\ call' = "clear_variables"
    /\ arg' = None
    /\ out' = None
    /\ UNCHANGED <<text, tokens, tree, self, history>>

\* Calculator.evaluate_expression, main.py:80-98, without a mapping (None)
\* or with one, the empty one included; parsed is what its first statement,
\* parse_expression(expression), gave
DoEvaluateExpression(expression, parsed) ==
    /\ \E variables \in EvalBindings :
        /\ arg' = [variables |-> variables]
        /\ \E result \in {EvaluateExpression(heap[self.variables],
                                             expression, parsed, variables)} :
              out' = result
    /\ text' = expression
    /\ call' = "evaluate_expression"
    /\ UNCHANGED <<tokens, tree, heap, self, history>>

\* Calculator.parse_and_differentiate, main.py:52-78
DoParseAndDifferentiate(expression, parsed) ==
    /\ \E variable \in Names :
        /\ arg' = [variable |-> variable]
        /\ \E result \in {ParseAndDifferentiate(expression, parsed,
                                                variable)} :
              out' = result
    /\ text' = expression
    /\ call' = "parse_and_differentiate"
    /\ UNCHANGED <<tokens, tree, heap, self, history>>

\* Calculator.visualize_expression, main.py:112-130
DoVisualizeExpression(expression, parsed) ==
    /\ \E style \in {"detailed", "simple"} :
        /\ arg' = [style |-> style]
        /\ \E result \in {VisualizeExpression(expression, parsed, style)} :
              out' = result
    /\ text' = expression
    /\ call' = "visualize_expression"
    /\ UNCHANGED <<tokens, tree, heap, self, history>>

NextCalc ==
    \/ DoSetVariable
    \/ DoGetVariables
    \/ DoWriteReturned
    \/ DoClearVariables
    \/ \E expression \in CalcTexts :
          \E parsed \in {ParseExpression(expression)} :
              \/ DoEvaluateExpression(expression, parsed)
              \/ DoParseAndDifferentiate(expression, parsed)
              \/ DoVisualizeExpression(expression, parsed)

SpecCalc == InitCalc /\ [][NextCalc]_vars

----------------------------------------------------------------------------
(* The Calculator's stored variables: C29, C30                             *)

\* C29: in every step of a Calculator, set_variable changes the stored
\* variables by binding the given name to the given value and nothing else,
\* clear_variables empties them, and every other operation
\* (parse_and_differentiate, evaluate_expression with or without a mapping,
\* visualize_expression, get_variables, succeeding or failing) and every
\* write to a mapping that get_variables returned leaves them as they were;
\* self.variables stays the same dict object.
C29_StoreFrame ==
    [][/\ self' = self
       /\ call' = "set_variable" =>
             heap'[self.variables]
                 = SetItem(heap[self.variables], arg'.name, arg'.value)
       /\ call' = "clear_variables" => heap'[self.variables] = NoBindings
       /\ call' \notin {"set_variable", "clear_variables"} =>
             heap'[self.variables] = heap[self.variables]]_vars

\* x is stored as 1, and the caller has cleared the mapping that
\* get_variables returned
C29_Witness ==
    /\ call = "write returned mapping"
    /\ heap[self.variables] = SetItem(NoBindings, "x", Whole(1))
    /\ heap[history[1]] = NoBindings

\* C30: evaluate_expression(expression, variables) with a mapping, the
\* empty mapping included, returns or raises what the evaluation against
\* that mapping alone gives, and with no mapping what the evaluation against
\* the stored variables gives.
C30_ExplicitBindingsPrecedence ==
    call = "evaluate_expression" =>
        out = EvaluateAgainst(text, ParseExpression(text),
                              IF arg.variables = None
                              THEN heap[self.variables]
                              ELSE arg.variables)

====
